---- MODULE Spec2Model ----
(***************************************************************************)
(* Nexus: polling scheduler, plugin runtime and Store (SQLite behind one   *)
(* Arc<Mutex<Database>>).  The model follows src/src-tauri/src:            *)
(*   scheduler.rs  (Scheduler::poll_plugin, start_polling)                 *)
(*   commands.rs   (the tauri commands)                                    *)
(*   db.rs         (the Store's SQL statements)                            *)
(*   plugin_runtime.rs (execute_plugin, parse_plugin_result)               *)
(*   notifications.rs  (should_send_notification, send_native_notification)*)
(***************************************************************************)
EXTENDS Integers, Sequences, FiniteSets, TLC

\* ------------------------------------------------------------ bounds
\* The wall clock runs over 0..MaxTime.
MaxTime == 1
\* At most MaxNotifs rows are ever inserted into the notifications table.
MaxNotifs == 2
\* i64 is scaled down to IntBits bits (two's complement).
IntBits == 5

\* ------------------------------------------------------------ Option<T>
None == <<>>
Some(x) == <<x>>
IsSome(o) == o # <<>>
Unwrap(o) == o[1]

\* ------------------------------------------------------------ i64
RECURSIVE Pow2(_)
Pow2(n) == IF n = 0 THEN 1 ELSE 2 * Pow2(n - 1)
I64_MAX == Pow2(IntBits - 1) - 1
I64_MIN == 0 - Pow2(IntBits - 1)
\* The value a release build stores for an i64 result x (wrapping).
WrapI64(x) == ((x - I64_MIN) % Pow2(IntBits)) + I64_MIN
\* Whether the exact result x does not fit (a debug build panics there).
OverflowsI64(x) == x > I64_MAX \/ x < I64_MIN

\* ------------------------------------------------------------ tasks
\* "sched" is the task spawned by start_polling; "ui" runs refresh_plugin.
Tasks == {"sched", "ui"}
Plugins == {"jira", "github"}

\* ------------------------------------------------------------ models.rs
PluginConfig(id, en, cred, ivl, last, err, cnt, set) ==
    [plugin_id |-> id, is_enabled |-> en, credentials |-> cred,
     poll_interval_secs |-> ivl, last_poll_at |-> last, last_error |-> err,
     error_count |-> cnt, settings |-> set]

\* What a plugin prints for one item (plugin_runtime.rs PluginItem).
PluginItem(id, sid, ty, title) ==
    [id |-> id, source |-> "jira", source_id |-> sid, item_type |-> ty,
     title |-> title, summary |-> None, url |-> "u", author |-> None,
     timestamp |-> 1, metadata |-> "m", tags |-> <<"bug">>]

PluginNotification(item, reason, urgency) ==
    [item_id |-> item, reason |-> reason, urgency |-> urgency]

\* serde_json::to_string of a value: the JSON text of it.
ToJsonString(v) == <<"json", v>>

\* ------------------------------------------------------------ db.rs: items
\* The items table is a set of rows; id is the PRIMARY KEY and
\* (source, source_id) is UNIQUE.
SameKey(r, item) == r.source = item.source /\ r.source_id = item.source_id

\* A DO UPDATE SET list that also assigns is_read = excluded.is_read.
UpsertUpdateResetsRead(r, item) ==
    [r EXCEPT !.title = item.title, !.summary = item.summary, !.url = item.url,
              !.author = item.author, !.timestamp = item.timestamp,
              !.priority = item.priority, !.metadata = item.metadata,
              !.tags = item.tags, !.is_read = item.is_read,
              !.updated_at = item.updated_at]

\* ON CONFLICT(source, source_id) DO UPDATE SET ...: the columns it assigns.
UpsertUpdate(r, item) ==
    [r EXCEPT !.title = item.title, !.summary = item.summary, !.url = item.url,
              !.author = item.author, !.timestamp = item.timestamp,
              !.priority = item.priority, !.metadata = item.metadata,
              !.tags = item.tags, !.updated_at = item.updated_at]

\* A plain INSERT into a table without the UNIQUE(source, source_id) index and
\* the primary key: every call adds the row.
upsert_item_plain_insert(rows, item) == [ok |-> TRUE, rows |-> rows \cup {item}]

\* Database::upsert_item: [ok, rows].  A row with the same (source, source_id)
\* is updated in place; otherwise the row is inserted, and the insert fails
\* (SQLITE_CONSTRAINT, nothing written) when the id is already taken.
upsert_item(rows, item) ==
    IF \E r \in rows : SameKey(r, item)
    THEN [ok |-> TRUE,
          rows |-> {IF SameKey(r, item) THEN UpsertUpdate(r, item) ELSE r : r \in rows}]
    ELSE IF \E r \in rows : r.id = item.id
         THEN [ok |-> FALSE, rows |-> rows]
         ELSE [ok |-> TRUE, rows |-> rows \cup {item}]

\* Database::mark_item_read: UPDATE items SET is_read = ?1 WHERE id = ?2.
mark_item_read(rows, item_id, read) ==
    {IF r.id = item_id THEN [r EXCEPT !.is_read = read] ELSE r : r \in rows}

\* ------------------------------------------------------------ db.rs: notifications
\* A has_active_notification whose WHERE clause tests is_dismissed = 1.
has_active_notification_dismissed(rows, item_id, reason) ==
    Cardinality({n \in rows : n.item_id = item_id /\ n.reason = reason
                              /\ n.is_dismissed}) > 0

\* A has_active_notification whose WHERE clause leaves out is_dismissed = 0.
has_active_notification_ever(rows, item_id, reason) ==
    Cardinality({n \in rows : n.item_id = item_id /\ n.reason = reason}) > 0

\* A has_active_notification whose WHERE clause leaves out reason = ?2.
has_active_notification_any_reason(rows, item_id, reason) ==
    Cardinality({n \in rows : n.item_id = item_id /\ ~n.is_dismissed}) > 0

\* A persist phase without the duplicate test: no pair counts as active.
has_active_notification_unchecked(rows, item_id, reason) == FALSE

\* Database::has_active_notification.
has_active_notification(rows, item_id, reason) ==
    Cardinality({n \in rows : n.item_id = item_id /\ n.reason = reason
                              /\ ~n.is_dismissed}) > 0

\* Database::insert_notification: INSERT OR IGNORE; the foreign key
\* item_id REFERENCES items(id) is enforced (PRAGMA foreign_keys = ON).
insert_notification(rows, itemRows, notif) ==
    IF \E n \in rows : n.id = notif.id
    THEN [ok |-> TRUE, rows |-> rows]
    ELSE IF ~(\E r \in itemRows : r.id = notif.item_id)
         THEN [ok |-> FALSE, rows |-> rows]
         ELSE [ok |-> TRUE, rows |-> rows \cup {notif}]

\* A dismiss_notification that flips the flag (SET is_dismissed = 1 - is_dismissed).
dismiss_notification_toggle(rows, notif_id) ==
    {IF n.id = notif_id THEN [n EXCEPT !.is_dismissed = ~n.is_dismissed] ELSE n : n \in rows}

\* Database::dismiss_notification.
dismiss_notification(rows, notif_id) ==
    {IF n.id = notif_id THEN [n EXCEPT !.is_dismissed = TRUE] ELSE n : n \in rows}

\* Database::dismiss_all_notifications.
dismiss_all_notifications(rows) ==
    {[n EXCEPT !.is_dismissed = TRUE] : n \in rows}

\* Database::get_active_notifications (as a set; the listing's order is by created_at).
get_active_notifications(rows) == {n \in rows : ~n.is_dismissed}

\* ------------------------------------------------------------ db.rs: plugin_config
\* Database::get_plugin_config: Option<PluginConfig>.
get_plugin_config(rows, plugin_id) ==
    IF \E c \in rows : c.plugin_id = plugin_id
    THEN Some(CHOOSE c \in rows : c.plugin_id = plugin_id)
    ELSE None

\* Database::upsert_plugin_config: on conflict every other column is overwritten.
upsert_plugin_config(rows, config) ==
    {c \in rows : c.plugin_id # config.plugin_id} \cup {config}

\* A get_enabled_plugin_configs without AND credentials IS NOT NULL.
get_enabled_plugin_configs_any_credentials(rows) ==
    {c \in rows : c.is_enabled}

\* Database::get_enabled_plugin_configs: the rows of the WHERE clause.
get_enabled_plugin_configs(rows) ==
    {c \in rows : c.is_enabled /\ IsSome(c.credentials)}

\* The Vec a SELECT without ORDER BY may return for a set of rows: any order.
RECURSIVE Orderings(_)
Orderings(S) ==
    IF S = {} THEN {<<>>}
    ELSE UNION {{<<x>> \o s : s \in Orderings(S \ {x})} : x \in S}

\* Database::get_items: SELECT * FROM items WHERE 1=1 [AND source = ?]
\* [AND is_read = 0] ORDER BY timestamp DESC LIMIT ?, as the set of the Vecs
\* the statement may return (rows of one timestamp come in any order; a
\* negative LIMIT is no limit in SQLite).
get_items(rows, source, unread_only, limit) ==
    LET matching == {i \in rows : (IsSome(source) => i.source = Unwrap(source))
                                  /\ (unread_only => ~i.is_read)}
        n == IF limit < 0 \/ limit > Cardinality(matching)
             THEN Cardinality(matching) ELSE limit
    IN {SubSeq(s, 1, n) :
          s \in {o \in Orderings(matching) :
                   \A j, k \in 1..Len(o) : j < k => o[j].timestamp >= o[k].timestamp}}


\* ------------------------------------------------------------ plugin_runtime.rs
\* The plugin's standard output, by what parse_plugin_result reads of it:
\*   wellformed       it is JSON whose present fields have the right types
\*   items            the "items" array, None when the key is missing
\*   notifications    the "notifications" array, None when the key is missing
\*   len_gt_200       json.len() > 200
\*   boundary_200     byte 200 is a char boundary of the text
StdOut(wf, its, ns, long, bnd) ==
    [wellformed |-> wf, items |-> its, notifications |-> ns,
     len_gt_200 |-> long, boundary_200 |-> bnd]

\* Result<_, String>: the Err text is kept as its kind and the set of the
\* scheduler's marker substrings that occur in it.
Ok(v) == [ok |-> TRUE, val |-> Some(v), kind |-> "", words |-> {}]
Err(kind, words) == [ok |-> FALSE, val |-> None, kind |-> kind, words |-> words]
Panic == [ok |-> FALSE, val |-> None, kind |-> "panic", words |-> {}]

\* parse_plugin_result: serde_json::from_str into PluginResult (both fields
\* required); on failure the message holds &json[..200] when json.len() > 200,
\* and that slice panics when byte 200 is inside a multi-byte character.
parse_plugin_result(json) ==
    IF json.wellformed /\ IsSome(json.items) /\ IsSome(json.notifications)
    THEN Ok([items |-> Unwrap(json.items), notifications |-> Unwrap(json.notifications)])
    ELSE IF json.len_gt_200 /\ ~json.boundary_200
         THEN Panic
         ELSE Err("ParseError", {})

\* A text printed by the subprocess is the sequence of its chunks: whitespace
\* chunks and the chunk of a document.
Space == [whitespace |-> " "]
Newline == [whitespace |-> "\n"]
Whitespace == {Space, Newline}

\* str::trim: the text without its leading and trailing whitespace, ws being
\* the whitespace chunks of the text's alphabet.
RECURSIVE TrimStart(_, _)
TrimStart(text, ws) ==
    IF text # <<>> /\ Head(text) \in ws THEN TrimStart(Tail(text), ws) ELSE text
RECURSIVE TrimEnd(_, _)
TrimEnd(text, ws) ==
    IF text # <<>> /\ text[Len(text)] \in ws
    THEN TrimEnd(SubSeq(text, 1, Len(text) - 1), ws) ELSE text
Trim(text, ws) == TrimEnd(TrimStart(text, ws), ws)

\* std::process::Output: the exit status, stdout, and of stderr the marker
\* substrings in it.
ProcessOutput(status, stdout, stderr) ==
    [status |-> status, stdout |-> stdout, stderr |-> stderr]

\* An execute_plugin that returns what was printed whatever the exit status.
execute_plugin_ignores_status(canonical, launched, output) ==
    IF ~canonical THEN Err("PathResolutionError", {})
    ELSE IF ~launched THEN Err("PluginExecutionError", {})
    ELSE Ok(Trim(output.stdout, Whitespace))

\* execute_plugin: canonicalize, cmd.output(), the exit status, the trimmed stdout.
execute_plugin(canonical, launched, output) ==
    IF ~canonical THEN Err("PathResolutionError", {})
    ELSE IF ~launched THEN Err("PluginExecutionError", {})
    ELSE IF output.status # 0 THEN Err("PluginExecutionError", output.stderr)
    ELSE Ok(Trim(output.stdout, Whitespace))

\* What serde_json::from_str is given: the text's document; a text without
\* one (empty) is not JSON.
JsonOf(text) ==
    IF text = <<>> THEN StdOut(FALSE, None, None, FALSE, TRUE) ELSE text[1]

\* ------------------------------------------------------------ db.rs: app_settings
\* The app_settings table: key -> Option<value> (value TEXT NOT NULL).
SettingKeys == {"quiet_hours_start", "quiet_hours_end",
                "focus_mode_enabled", "focus_mode_threshold"}
NoSettings == [k \in SettingKeys |-> None]

\* Database::get_app_setting: Option<String>.
get_app_setting(rows, key) == rows[key]

\* Database::set_app_setting: insert, or replace the value on conflict.
set_app_setting(rows, key, value) == [rows EXCEPT ![key] = Some(value)]

\* ------------------------------------------------------------ notifications.rs
\* A text is the sequence of its bytes; &str compares byte by byte, a proper
\* prefix sorting first.
StrLt(a, b) ==
    \E k \in 1..(Len(b)) :
        /\ \A j \in 1..(k - 1) : j <= Len(a) /\ a[j] = b[j]
        /\ (k > Len(a) /\ k - 1 = Len(a)) \/ (k <= Len(a) /\ a[k] < b[k])
StrLe(a, b) == a = b \/ StrLt(a, b)

\* A format("%H:%M") without the zero padding of the hour ("%-H:%M").
FormatHMUnpadded(t) ==
    (IF t[1] >= 10 THEN <<48 + (t[1] \div 10)>> ELSE <<>>)
    \o <<48 + (t[1] % 10), 58, 48 + (t[2] \div 10), 48 + (t[2] % 10)>>

\* chrono's format("%H:%M") of the time of day t = <<hour, minute>>: two
\* digits, a colon, two digits (ASCII).
FormatHM(t) ==
    <<48 + (t[1] \div 10), 48 + (t[1] % 10), 58, 48 + (t[2] \div 10), 48 + (t[2] % 10)>>

\* is_in_quiet_hours with the local time of day lt as chrono::Local::now().
is_in_quiet_hours(start, end, lt) ==
    LET tnow == FormatHM(lt) IN
    IF StrLe(start, end)
    THEN StrLe(start, tnow) /\ StrLt(tnow, end)
    ELSE StrLe(start, tnow) \/ StrLt(tnow, end)

urgency_level(urgency) ==
    CASE urgency = "critical" -> 4
      [] urgency = "high" -> 3
      [] urgency = "medium" -> 2
      [] urgency = "low" -> 1
      [] OTHER -> 0

\* A threshold an urgency has to exceed, not just meet.
urgency_meets_threshold_strict(urgency, threshold) ==
    urgency_level(urgency) > urgency_level(threshold)

urgency_meets_threshold(urgency, threshold) ==
    urgency_level(urgency) >= urgency_level(threshold)

\* The focus-mode part of should_send_notification.
FocusAllows(settings, urgency) ==
    LET focus_enabled == IF IsSome(get_app_setting(settings, "focus_mode_enabled"))
                         THEN Unwrap(get_app_setting(settings, "focus_mode_enabled"))
                         ELSE ""
        threshold == IF IsSome(get_app_setting(settings, "focus_mode_threshold"))
                     THEN Unwrap(get_app_setting(settings, "focus_mode_threshold"))
                     ELSE "high"
    IN IF focus_enabled = "1" THEN urgency_meets_threshold(urgency, threshold) ELSE TRUE

\* The quiet-hours part of should_send_notification.
QuietNow(settings, lt) ==
    /\ IsSome(get_app_setting(settings, "quiet_hours_start"))
    /\ IsSome(get_app_setting(settings, "quiet_hours_end"))
    /\ is_in_quiet_hours(Unwrap(get_app_setting(settings, "quiet_hours_start")),
                         Unwrap(get_app_setting(settings, "quiet_hours_end")), lt)

\* A should_send_notification that lets focus mode admit an urgency before it
\* looks at the quiet hours.
should_send_notification_focus_first(settings, lt, urgency) ==
    IF get_app_setting(settings, "focus_mode_enabled") = Some("1")
    THEN FocusAllows(settings, urgency)
    ELSE ~QuietNow(settings, lt)

\* should_send_notification: quiet hours first, then focus mode.
should_send_notification(settings, lt, urgency) ==
    IF QuietNow(settings, lt) THEN FALSE ELSE FocusAllows(settings, urgency)

HumanLabel(signal) ==
    CASE signal \in {"assigned_to_me", "assigned"} -> "Assigned to you"
      [] signal \in {"high_priority", "priority_p1_blocker"} -> "High priority"
      [] signal \in {"deadline_approaching", "deadline_24h"} -> "Deadline approaching"
      [] signal \in {"mentioned_in_comment", "mentioned"} -> "You were mentioned"
      [] signal = "vip_sender" -> "VIP sender"
      [] signal = "unread_over_4h" -> "Unread for 4+ hours"
      [] signal = "has_attachment" -> "Has attachment"
      [] signal = "pr_review_requested" -> "Review requested"
      [] signal = "ci_failed" -> "CI failed"
      [] signal = "pr_comment" -> "Comment on your PR"
      [] OTHER -> signal

\* The text of a reason string: its chunks in order, a chunk being a comma, a
\* space or a run of other characters.  A string not listed is one chunk.
ReasonText(reason) ==
    CASE reason = "" -> <<>>
      [] reason = "assigned_to_me,high_priority" -> <<"assigned_to_me", ",", "high_priority">>
      [] reason = "deadline_24h,mentioned,vip_sender" ->
            <<"deadline_24h", ",", "mentioned", ",", "vip_sender">>
      [] reason = "ci_failed, pr_comment" -> <<"ci_failed", ",", " ", "pr_comment">>
      [] reason = "custom,assigned" -> <<"custom", ",", "assigned">>
      [] reason = "assigned,custom,other" -> <<"assigned", ",", "custom", ",", "other">>
      [] reason = " unread_over_4h ,custom " ->
            <<" ", "unread_over_4h", " ", ",", "custom", " ">>
      [] reason = "has_attachment,has_attachment" ->
            <<"has_attachment", ",", "has_attachment">>
      [] reason = "pr_review_requested,priority_p1_blocker,deadline_approaching" ->
            <<"pr_review_requested", ",", "priority_p1_blocker", ",", "deadline_approaching">>
      [] OTHER -> <<reason>>

\* str::split(','): the pieces between the commas, in order.
RECURSIVE Split(_, _)
Split(text, piece) ==
    IF text = <<>> THEN <<piece>>
    ELSE IF Head(text) = "," THEN <<piece>> \o Split(Tail(text), <<>>)
    ELSE Split(Tail(text), Append(piece, Head(text)))

\* match signal.trim() { ... other => other }: the label of the trimmed piece
\* when it is a code of the table, the trimmed piece otherwise.
LabelOfPiece(signal) ==
    LET trimmed == Trim(signal, {" "}) IN
    IF Len(trimmed) = 1 THEN <<HumanLabel(trimmed[1])>> ELSE trimmed

\* [&str]::join(", ")
RECURSIVE Join(_)
Join(labels) ==
    IF labels = <<>> THEN <<>>
    ELSE IF Len(labels) = 1 THEN Head(labels)
    ELSE Head(labels) \o <<",", " ">> \o Join(Tail(labels))

\* A humanize_reason that looks the whole reason up, without splitting it.
humanize_reason_unsplit(reason) == LabelOfPiece(ReasonText(reason))

\* humanize_reason: split(','), map over the pieces, join(", "); the text of
\* the result.
humanize_reason(reason) ==
    LET pieces == Split(ReasonText(reason), <<>>) IN
    Join([k \in 1..Len(pieces) |-> LabelOfPiece(pieces[k])])

\* A send_native_notification that shows every title without a label.
send_native_notification_unlabelled(notif, title) ==
    IF notif.urgency \in {"critical", "high", "medium"}
    THEN Some([title |-> <<title>>, body |-> humanize_reason(notif.reason)])
    ELSE None

\* A send_native_notification that shows every urgency, the ones without a
\* label under the bare title.
send_native_notification_every_urgency(notif, title) ==
    CASE notif.urgency = "critical" ->
            Some([title |-> <<"[CRITICAL]", " ", title>>, body |-> humanize_reason(notif.reason)])
      [] notif.urgency = "high" ->
            Some([title |-> <<"[HIGH]", " ", title>>, body |-> humanize_reason(notif.reason)])
      [] OTHER ->
            Some([title |-> <<title>>, body |-> humanize_reason(notif.reason)])

\* send_native_notification: the alert shown, None for low and unknown urgency.
\* The title is the text of its parts in order.
send_native_notification(notif, title) ==
    CASE notif.urgency = "critical" ->
            Some([title |-> <<"[CRITICAL]", " ", title>>, body |-> humanize_reason(notif.reason)])
      [] notif.urgency = "high" ->
            Some([title |-> <<"[HIGH]", " ", title>>, body |-> humanize_reason(notif.reason)])
      [] notif.urgency = "medium" ->
            Some([title |-> <<title>>, body |-> humanize_reason(notif.reason)])
      [] OTHER -> None

\* ------------------------------------------------------------ scheduler.rs: persist phase
\* The NexusItem poll_plugin builds from a PluginItem (scheduler.rs 69-95).
NexusItemOf(pi, ts) ==
    [id |-> pi.id, source |-> pi.source, source_id |-> pi.source_id,
     item_type |-> pi.item_type, title |-> pi.title, summary |-> pi.summary,
     url |-> pi.url, author |-> pi.author, timestamp |-> pi.timestamp,
     priority |-> 0, metadata |-> Some(ToJsonString(pi.metadata)),
     tags |-> Some(ToJsonString(pi.tags)), is_read |-> FALSE,
     created_at |-> ts, updated_at |-> ts]

\* for pi in &result.items { db_ref.upsert_item(&item)?; }
RECURSIVE PersistItems(_, _, _)
PersistItems(rows, pis, ts) ==
    IF pis = <<>> THEN [ok |-> TRUE, rows |-> rows]
    ELSE LET r == upsert_item(rows, NexusItemOf(Head(pis), ts))
         IN IF r.ok THEN PersistItems(r.rows, Tail(pis), ts)
            ELSE [ok |-> FALSE, rows |-> r.rows]

\* Uuid::new_v4(): an id no stored notification has (rows are never deleted).
FreshNotifId(rows) == Cardinality(rows) + 1

\* The Notification poll_plugin builds from a candidate (scheduler.rs 108-115).
NotificationOf(pn, id, ts) ==
    [id |-> id, item_id |-> pn.item_id, reason |-> pn.reason,
     urgency |-> pn.urgency, is_dismissed |-> FALSE, created_at |-> ts]

\* An alert that falls back on the item id as title when the result does not
\* hold the candidate's item.
AlertForAnyItem(notif, resItems, settings, lt) ==
    LET found == {k \in 1..Len(resItems) : resItems[k].id = notif.item_id}
        title == IF found = {} THEN notif.item_id
                 ELSE resItems[CHOOSE k \in found : \A j \in found : k <= j].title
    IN IF should_send_notification(settings, lt, notif.urgency)
       THEN send_native_notification(notif, title)
       ELSE <<>>

\* An alert that looks the candidate's item up by its source_id.
AlertForBySourceId(notif, resItems, settings, lt) ==
    LET found == {k \in 1..Len(resItems) : resItems[k].source_id = notif.item_id} IN
    IF found = {} THEN <<>>
    ELSE LET item == resItems[CHOOSE k \in found : \A j \in found : k <= j] IN
         IF should_send_notification(settings, lt, notif.urgency)
         THEN send_native_notification(notif, item.title)
         ELSE <<>>

\* if let Some(item) = result.items.iter().find(|i| i.id == pn.item_id) {
\*     if should_send_notification(..) { send_native_notification(app, &notif, &item.title) } }
\* as the sequence of the alerts shown: empty or one alert.
AlertFor(notif, resItems, settings, lt) ==
    LET found == {k \in 1..Len(resItems) : resItems[k].id = notif.item_id} IN
    IF found = {} THEN <<>>
    ELSE LET item == resItems[CHOOSE k \in found : \A j \in found : k <= j] IN
         IF should_send_notification(settings, lt, notif.urgency)
         THEN send_native_notification(notif, item.title)
         ELSE <<>>

\* A notification loop that leaves out the candidates should_send_notification
\* turns down.
RECURSIVE PersistNotificationsGated(_, _, _, _, _, _, _, _)
PersistNotificationsGated(rows, itemRows, pns, ts, resItems, settings, lt, shown) ==
    IF pns = <<>> THEN [ok |-> TRUE, rows |-> rows, alerts |-> shown]
    ELSE LET pn == Head(pns) IN
         IF \/ has_active_notification(rows, pn.item_id, pn.reason)
            \/ ~should_send_notification(settings, lt, pn.urgency)
         THEN PersistNotificationsGated(rows, itemRows, Tail(pns), ts, resItems,
                                        settings, lt, shown)
         ELSE LET notif == NotificationOf(pn, FreshNotifId(rows), ts)
                  r == insert_notification(rows, itemRows, notif)
              IN IF r.ok
                 THEN PersistNotificationsGated(r.rows, itemRows, Tail(pns), ts, resItems,
                          settings, lt, shown \o AlertFor(notif, resItems, settings, lt))
                 ELSE [ok |-> FALSE, rows |-> r.rows, alerts |-> shown]

\* for pn in &result.notifications { skip when active; insert_notification?; alert }
\* [ok, rows, alerts]: alerts are the native alerts shown on the way.
RECURSIVE PersistNotifications(_, _, _, _, _, _, _, _)
PersistNotifications(rows, itemRows, pns, ts, resItems, settings, lt, shown) ==
    IF pns = <<>> THEN [ok |-> TRUE, rows |-> rows, alerts |-> shown]
    ELSE LET pn == Head(pns) IN
         IF has_active_notification(rows, pn.item_id, pn.reason)
         THEN PersistNotifications(rows, itemRows, Tail(pns), ts, resItems, settings, lt, shown)
         ELSE LET notif == NotificationOf(pn, FreshNotifId(rows), ts)
                  r == insert_notification(rows, itemRows, notif)
              IN IF r.ok
                 THEN PersistNotifications(r.rows, itemRows, Tail(pns), ts, resItems,
                          settings, lt, shown \o AlertFor(notif, resItems, settings, lt))
                 ELSE [ok |-> FALSE, rows |-> r.rows, alerts |-> shown]

\* A write-back that leaves error_count as it was read.
UpdatedConfigKeepsErrorCount(config, ts) ==
    [config EXCEPT !.last_poll_at = Some(ts), !.last_error = None]

\* The config row poll_plugin writes back (scheduler.rs 125-128).
UpdatedConfig(config, ts) ==
    [config EXCEPT !.last_poll_at = Some(ts), !.last_error = None, !.error_count = 0]


\* ------------------------------------------------------------ scheduler.rs: due check
\* let elapsed = match config.last_poll_at { Some(last) => now - last, None => i64::MAX }
ElapsedOverflows(tnow, config) ==
    IsSome(config.last_poll_at) /\ OverflowsI64(tnow - Unwrap(config.last_poll_at))
Elapsed(tnow, config) ==
    IF IsSome(config.last_poll_at)
    THEN WrapI64(tnow - Unwrap(config.last_poll_at))
    ELSE I64_MAX
\* A due check whose comparison is the other way round.
IsDueInverted(tnow, config) == ~(Elapsed(tnow, config) > config.poll_interval_secs)

\* if elapsed < config.poll_interval_secs { continue; }
IsDue(tnow, config) == ~(Elapsed(tnow, config) < config.poll_interval_secs)
\* What the check does: "due", "skip", or, where the subtraction overflows,
\* what the build makes of it (overflow checks on: "panic"; off: the wrapped value).
DueOutcomes(tnow, config) ==
    {IF IsDue(tnow, config) THEN "due" ELSE "skip"}
    \cup (IF ElapsedOverflows(tnow, config) THEN {"panic"} ELSE {})

\* let silent = e.contains("no credentials") || e.contains("not configured") || e.contains("disabled")
SilentWordsWithoutDisabled == {"no credentials", "not configured"}

SilentWords == {"no credentials", "not configured", "disabled"}
IsSilent(e) == e.words \cap SilentWords # {}

\* An emit that is left out when the poll fetched no items.
EmitsWhenItems(r) == r.ok /\ Unwrap(r.val) > 0

\* Ok(count) => app.emit("items-updated", plugin_id); Err(e) => no emit.
Emits(r) == r.ok

\* ------------------------------------------------------------ inputs
ItemA1 == PluginItem("a", "1", "ticket", "t1")
ItemA2 == PluginItem("a", "1", "bug", "t2")
ItemB1 == PluginItem("b", "1", "ticket", "t1")
ItemA9 == PluginItem("a", "9", "ticket", "t1")
CandA == PluginNotification("a", "assigned", "medium")
CandA2 == PluginNotification("a", "mentioned", "low")
CandB == PluginNotification("b", "assigned", "high")
CandA3 == PluginNotification("a", "deadline_24h", "critical")

\* {"items":[],"notifications":[]}
OutEmpty == StdOut(TRUE, Some(<<>>), Some(<<>>), FALSE, TRUE)
\* {"items":[]}
OutNoNotifications == StdOut(TRUE, Some(<<>>), None, FALSE, TRUE)
\* {"notifications":[]}
OutNoItems == StdOut(TRUE, None, Some(<<>>), FALSE, TRUE)
\* Not JSON, longer than 200 bytes, byte 200 inside a multi-byte character.
OutGarbage == StdOut(FALSE, None, None, TRUE, FALSE)
OutValid(its, ns) == StdOut(TRUE, Some(its), Some(ns), TRUE, TRUE)

\* What the plugins print in the runs of Spec.
RawOutputs ==
    { OutEmpty, OutNoNotifications, OutGarbage, OutValid(<<>>, <<CandA>>) }

\* What the plugin prints in the runs of SpecStore.
StoreOutputs ==
    { OutValid(<<ItemA1>>, <<CandA>>),
      OutValid(<<ItemA2>>, <<CandA, CandA>>),
      OutValid(<<ItemB1>>, <<CandB>>),
      OutValid(<<ItemA9>>, <<CandA2>>),
      OutValid(<<>>, <<CandA>>),
      OutValid(<<>>, <<CandA3>>) }

\* The configs the user saves through save_plugin_config.
UserConfigs ==
    { PluginConfig("jira", TRUE, Some("k1"), 1, None, None, 0, None),
      PluginConfig("jira", TRUE, Some("k2"), 2, Some(0), Some("boom"), 1, Some("s")),
      PluginConfig("jira", FALSE, Some("k1"), 1, None, None, 0, None),
      PluginConfig("jira", TRUE, None, 1, None, None, 0, None),
      PluginConfig("github", TRUE, Some("k1"), 1, None, None, 0, None) }

ItemIds == {"a", "b"}

\* ------------------------------------------------------------ state
VARIABLES
    now,            \* Utc::now().timestamp()
    lock,           \* owner of the Mutex<Database>: "free" or a task
    plugin_config,  \* table plugin_config
    items,          \* table items
    notifications,  \* table notifications
    pc,             \* where each task is
    hb,             \* the heartbeat loop's locals: now, configs, position
    poll,           \* poll_plugin's locals, per task
    req,            \* the command waiting for the Store lock, or "none"
    out,            \* what the heartbeat loop did with the last poll's result
    app_settings,   \* table app_settings
    local_time,     \* chrono::Local::now(), as <<hour, minute>>
    alerts          \* the native alerts shown by the last persist phase

vars == <<now, lock, plugin_config, items, notifications, pc, hb, poll, req, out,
          app_settings, local_time, alerts>>
store == <<plugin_config, items, notifications, app_settings>>

NoPoll == [plugin_id |-> "", config |-> None, output |-> None, raw |-> None,
           result |-> None, now |-> 0, ret |-> None]
NoHb == [now |-> 0, configs |-> <<>>, idx |-> 1, polled |-> {}]

Init ==
    /\ now = 0
    /\ lock = "free"
    /\ plugin_config = {}
    /\ items = {}
    /\ notifications = {}
    /\ pc = [t \in Tasks |-> IF t = "sched" THEN "sleep" ELSE "idle"]
    /\ hb = NoHb
    /\ poll = [t \in Tasks |-> NoPoll]
    /\ req = "none"
    /\ out = None
    /\ app_settings = NoSettings
    /\ local_time = <<12, 0>>
    /\ alerts = <<>>

\* The clock advances.
Tick ==
    /\ now < MaxTime
    /\ now' = now + 1
    /\ UNCHANGED <<lock, plugin_config, items, notifications, pc, hb, poll, req, out,
                 app_settings, local_time, alerts>>

\* ------------------------------------------------------------ Scheduler::poll_plugin
\* poll_plugin returns r to its caller; the block's guard is dropped.
Return(t, r) ==
    /\ poll' = [poll EXCEPT ![t] = [NoPoll EXCEPT !.plugin_id = poll[t].plugin_id,
                                                  !.ret = Some(r)]]
    /\ pc' = [pc EXCEPT ![t] = "ret"]

\* A phase 1 whose guard outlives its block.
LockAfterReadPhaseHeld(t) == t

\* The lock's owner once the block of phase 1 is left (db_ref dropped).
LockAfterReadPhase(t) == "free"
\* The lock's owner once the block of phase 3 is left (db_ref dropped).
LockAfterPersistPhase(t) == "free"

\* Phase 1: db.lock()
PollLockRead(t) ==
    /\ pc[t] = "p1_lock"
    /\ lock = "free"
    /\ lock' = t
    /\ pc' = [pc EXCEPT ![t] = "p1_read"]
    /\ UNCHANGED <<now, plugin_config, items, notifications, hb, poll, req, out,
                 app_settings, local_time, alerts>>

\* A phase 1 without the is_enabled test.
PollReadConfigIgnoresEnabled(t) ==
    /\ pc[t] = "p1_read"
    /\ lock' = LockAfterReadPhase(t)
    /\ LET c == get_plugin_config(plugin_config, poll[t].plugin_id) IN
       IF ~IsSome(c) THEN Return(t, Err("NotConfigured", {"not configured"}))
       ELSE IF ~IsSome(Unwrap(c).credentials)
            THEN Return(t, Err("MissingCredentials", {"no credentials"}))
       ELSE /\ poll' = [poll EXCEPT ![t].config = c]
            /\ pc' = [pc EXCEPT ![t] = "path"]
    /\ UNCHANGED <<now, plugin_config, items, notifications, hb, req, out,
                 app_settings, local_time, alerts>>

\* Phase 1: get_plugin_config and the three expected failures.
PollReadConfig(t) ==
    /\ pc[t] = "p1_read"
    /\ lock' = LockAfterReadPhase(t)
    /\ LET c == get_plugin_config(plugin_config, poll[t].plugin_id) IN
       IF ~IsSome(c) THEN Return(t, Err("NotConfigured", {"not configured"}))
       ELSE IF ~Unwrap(c).is_enabled THEN Return(t, Err("Disabled", {"disabled"}))
       ELSE IF ~IsSome(Unwrap(c).credentials)
            THEN Return(t, Err("MissingCredentials", {"no credentials"}))
       ELSE /\ poll' = [poll EXCEPT ![t].config = c]
            /\ pc' = [pc EXCEPT ![t] = "path"]
    /\ UNCHANGED <<now, plugin_config, items, notifications, hb, req, out,
                 app_settings, local_time, alerts>>

\* The (item_id, reason) pairs among a printed output's candidates.
CandidatePairs(raw) ==
    IF IsSome(raw.notifications)
    THEN {<<Unwrap(raw.notifications)[i].item_id, Unwrap(raw.notifications)[i].reason>> :
            i \in 1..Len(Unwrap(raw.notifications))}
    ELSE {}

\* What a subprocess that prints one of the documents docs can leave behind:
\* exit 0 with the document bare or between whitespace, exit 0 with nothing
\* but whitespace, exit 1 with nothing printed and a stderr with or without
\* the marker "disabled", and exit 1 after a valid document was printed.
ProcessOutputs(docs) ==
    {ProcessOutput(0, <<d>>, {}) : d \in docs}
    \cup {ProcessOutput(0, <<Space, d, Newline>>, {}) : d \in docs}
    \cup {ProcessOutput(0, <<Newline>>, {})}
    \cup {ProcessOutput(1, <<>>, w) : w \in {{}, {"disabled"}}}
    \cup {ProcessOutput(1, <<d, Newline>>, {}) :
            d \in {e \in docs : parse_plugin_result(e).ok}}

\* plugin_path.exists(), then execute_plugin up to cmd.output(): the path does
\* not resolve, deno cannot be launched, or the subprocess runs; output is
\* what the subprocess will have left when it exits (one that cannot take the
\* notifications table past MaxNotifs rows).
PollResolve(t, outs) ==
    /\ pc[t] = "path"
    /\ \E o \in {"missing", "unresolved", "nolaunch", "started"} :
         CASE o = "missing" -> Return(t, Err("PluginNotFound", {}))
           [] o = "unresolved" -> Return(t, execute_plugin(FALSE, FALSE, None))
           [] o = "nolaunch" -> Return(t, execute_plugin(TRUE, FALSE, None))
           [] OTHER -> /\ pc' = [pc EXCEPT ![t] = "exec"]
                       /\ \E output \in outs :
                            /\ Cardinality(notifications)
                                 + Cardinality(CandidatePairs(JsonOf(Trim(output.stdout, Whitespace))))
                                 <= MaxNotifs
                            /\ poll' = [poll EXCEPT ![t].output = Some(output)]
    /\ UNCHANGED <<now, lock, plugin_config, items, notifications, hb, req, out,
                 app_settings, local_time, alerts>>

\* cmd.output() returns: the rest of execute_plugin, its Ok value handed to
\* parse_plugin_result.
PollExecExit(t) ==
    /\ pc[t] = "exec"
    /\ LET r == execute_plugin(TRUE, TRUE, Unwrap(poll[t].output)) IN
       IF r.ok
       THEN /\ poll' = [poll EXCEPT ![t].output = None,
                                    ![t].raw = Some(JsonOf(Unwrap(r.val)))]
            /\ pc' = [pc EXCEPT ![t] = "parse"]
       ELSE Return(t, r)
    /\ UNCHANGED <<now, lock, plugin_config, items, notifications, hb, req, out,
                 app_settings, local_time, alerts>>

\* parse_plugin_result, then let now = Utc::now().timestamp().
PollParse(t) ==
    /\ pc[t] = "parse"
    /\ LET r == parse_plugin_result(Unwrap(poll[t].raw)) IN
       IF r.ok
       THEN /\ poll' = [poll EXCEPT ![t].raw = None, ![t].result = r.val, ![t].now = now]
            /\ pc' = [pc EXCEPT ![t] = "p3_lock"]
       ELSE IF r.kind = "panic"
            THEN /\ poll' = [poll EXCEPT ![t] = NoPoll]
                 /\ pc' = [pc EXCEPT ![t] = "panicked"]
            ELSE Return(t, r)
    /\ UNCHANGED <<now, lock, plugin_config, items, notifications, hb, req, out,
                 app_settings, local_time, alerts>>

\* Phase 3: db.lock()
PollLockPersist(t) ==
    /\ pc[t] = "p3_lock"
    /\ lock = "free"
    /\ lock' = t
    /\ pc' = [pc EXCEPT ![t] = "p3_persist"]
    /\ UNCHANGED <<now, plugin_config, items, notifications, hb, poll, req, out,
                 app_settings, local_time, alerts>>

\* Phase 3: the upserts, the notification loop, the config write-back.
PollPersist(t) ==
    /\ pc[t] = "p3_persist"
    /\ lock' = LockAfterPersistPhase(t)
    /\ LET res == Unwrap(poll[t].result)
           ts == poll[t].now
           its == PersistItems(items, res.items, ts)
           nts == PersistNotifications(notifications, its.rows, res.notifications, ts,
                                       res.items, app_settings, local_time, <<>>)
       IN /\ items' = its.rows
          /\ alerts' = IF its.ok THEN nts.alerts ELSE <<>>
          /\ IF its.ok
             THEN /\ notifications' = nts.rows
                  /\ IF nts.ok
                     THEN /\ plugin_config' = upsert_plugin_config(plugin_config,
                                   UpdatedConfig(Unwrap(poll[t].config), ts))
                          /\ Return(t, Ok(Len(res.items)))
                     ELSE /\ UNCHANGED plugin_config
                          /\ Return(t, Err("StoreError", {}))
             ELSE /\ UNCHANGED <<notifications, plugin_config>>
                  /\ Return(t, Err("StoreError", {}))
    /\ UNCHANGED <<now, hb, req, out, app_settings, local_time>>

PollPlugin(t, outs) ==
    \/ PollLockRead(t) \/ PollReadConfig(t) \/ PollResolve(t, ProcessOutputs(outs))
    \/ PollExecExit(t)
    \/ PollParse(t) \/ PollLockPersist(t) \/ PollPersist(t)

\* ------------------------------------------------------------ start_polling
\* heartbeat.tick().await; let now = Utc::now().timestamp();
HeartbeatTick ==
    /\ pc["sched"] = "sleep"
    /\ hb' = [NoHb EXCEPT !.now = now]
    /\ out' = None
    /\ pc' = [pc EXCEPT !["sched"] = "fetch"]
    /\ UNCHANGED <<now, lock, plugin_config, items, notifications, poll, req,
                 app_settings, local_time, alerts>>

\* match db.lock() { Ok(db_ref) => db_ref.get_enabled_plugin_configs().unwrap_or_default() }
HeartbeatFetch ==
    /\ pc["sched"] = "fetch"
    /\ lock = "free"
    /\ \E cs \in Orderings(get_enabled_plugin_configs(plugin_config)) :
         hb' = [hb EXCEPT !.configs = cs]
    /\ pc' = [pc EXCEPT !["sched"] = "loop"]
    /\ UNCHANGED <<now, lock, plugin_config, items, notifications, poll, req, out,
                 app_settings, local_time, alerts>>

\* A loop body that starts the poll and goes on to the next config at once.
SpawnPollPlugin(config) ==
    /\ poll' = [poll EXCEPT !["sched"] = [NoPoll EXCEPT !.plugin_id = config.plugin_id]]
    /\ hb' = [hb EXCEPT !.polled = @ \cup {config.plugin_id}, !.idx = @ + 1]
    /\ UNCHANGED pc

\* scheduler.poll_plugin(&config.plugin_id, &db, &app): a call; the loop goes
\* on when it has returned.
CallPollPlugin(config) ==
    /\ poll' = [poll EXCEPT !["sched"] = [NoPoll EXCEPT !.plugin_id = config.plugin_id]]
    /\ hb' = [hb EXCEPT !.polled = @ \cup {config.plugin_id}]
    /\ pc' = [pc EXCEPT !["sched"] = "p1_lock"]

\* One iteration of for config in &configs: the due check, then poll_plugin is called.
HeartbeatDueCheck ==
    /\ pc["sched"] = "loop"
    /\ hb.idx <= Len(hb.configs)
    /\ \E o \in DueOutcomes(hb.now, hb.configs[hb.idx]) :
         CASE o = "due" -> CallPollPlugin(hb.configs[hb.idx])
           [] o = "skip" ->
                /\ hb' = [hb EXCEPT !.idx = @ + 1]
                /\ UNCHANGED <<poll, pc>>
           [] OTHER ->
                /\ pc' = [pc EXCEPT !["sched"] = "panicked"]
                /\ UNCHANGED <<hb, poll>>
    /\ out' = None
    /\ UNCHANGED <<now, lock, plugin_config, items, notifications, req,
                 app_settings, local_time, alerts>>

\* match scheduler.poll_plugin(..) { Ok(count) => emit, Err(e) => log unless silent }
HeartbeatHandleResult ==
    /\ pc["sched"] = "ret"
    /\ LET r == Unwrap(poll["sched"].ret) IN
       out' = Some([plugin_id |-> poll["sched"].plugin_id,
                    emitted |-> Emits(r),
                    logged |-> ~r.ok /\ ~IsSilent(r),
                    kind |-> r.kind])
    /\ poll' = [poll EXCEPT !["sched"] = NoPoll]
    /\ hb' = [hb EXCEPT !.idx = @ + 1]
    /\ pc' = [pc EXCEPT !["sched"] = "loop"]
    /\ UNCHANGED <<now, lock, plugin_config, items, notifications, req,
                 app_settings, local_time, alerts>>

\* The for loop is over: back to heartbeat.tick().await.
HeartbeatLoopEnd ==
    /\ pc["sched"] = "loop"
    /\ hb.idx > Len(hb.configs)
    /\ hb' = NoHb
    /\ out' = None
    /\ pc' = [pc EXCEPT !["sched"] = "sleep"]
    /\ UNCHANGED <<now, lock, plugin_config, items, notifications, poll, req,
                 app_settings, local_time, alerts>>

\* ------------------------------------------------------------ commands.rs
\* refresh_plugin: let db = state.db.lock()?; then scheduler.poll_plugin(..)
\* with the guard db alive until the command returns.  std::sync::Mutex is
\* not reentrant: poll_plugin's own db.lock() (PollLockRead) then waits for a
\* lock its own task holds.
RefreshPlugin ==
    /\ pc["ui"] = "idle"
    /\ lock = "free"
    /\ lock' = "ui"
    /\ \E p \in Plugins : poll' = [poll EXCEPT !["ui"] = [NoPoll EXCEPT !.plugin_id = p]]
    /\ pc' = [pc EXCEPT !["ui"] = "p1_lock"]
    /\ UNCHANGED <<now, plugin_config, items, notifications, hb, req, out,
                 app_settings, local_time, alerts>>

Commands == {"get_items", "mark_read", "get_notifications", "dismiss_notification",
             "dismiss_all_notifications", "get_plugin_config", "save_plugin_config"}

\* The frontend invokes a command; it waits at state.db.lock().
Invoke(cmds) ==
    /\ req = "none"
    /\ \E c \in cmds : req' = c
    /\ UNCHANGED <<now, lock, plugin_config, items, notifications, pc, hb, poll, out,
                 app_settings, local_time, alerts>>

\* get_items, get_notifications, get_plugin_config: lock, read, unlock.
ServeRead ==
    /\ req \in {"get_items", "get_notifications", "get_plugin_config"}
    /\ lock = "free"
    /\ req' = "none"
    /\ UNCHANGED <<now, lock, plugin_config, items, notifications, pc, hb, poll, out,
                 app_settings, local_time, alerts>>

\* mark_read: lock, mark_item_read, unlock.
ServeMarkRead ==
    /\ req = "mark_read"
    /\ lock = "free"
    /\ \E id \in ItemIds, read \in BOOLEAN : items' = mark_item_read(items, id, read)
    /\ req' = "none"
    /\ UNCHANGED <<now, lock, plugin_config, notifications, pc, hb, poll, out,
                 app_settings, local_time, alerts>>

\* dismiss_notification: lock, dismiss_notification, unlock.
ServeDismiss ==
    /\ req = "dismiss_notification"
    /\ lock = "free"
    /\ \E id \in 1..MaxNotifs : notifications' = dismiss_notification(notifications, id)
    /\ req' = "none"
    /\ UNCHANGED <<now, lock, plugin_config, items, pc, hb, poll, out,
                 app_settings, local_time, alerts>>

\* dismiss_all_notifications: lock, dismiss_all_notifications, unlock.
ServeDismissAll ==
    /\ req = "dismiss_all_notifications"
    /\ lock = "free"
    /\ notifications' = dismiss_all_notifications(notifications)
    /\ req' = "none"
    /\ UNCHANGED <<now, lock, plugin_config, items, pc, hb, poll, out,
                 app_settings, local_time, alerts>>

\* save_plugin_config: lock, upsert_plugin_config, unlock.
ServeSavePluginConfig(cfgs) ==
    /\ req = "save_plugin_config"
    /\ lock = "free"
    /\ \E c \in cfgs : plugin_config' = upsert_plugin_config(plugin_config, c)
    /\ req' = "none"
    /\ UNCHANGED <<now, lock, items, notifications, pc, hb, poll, out,
                 app_settings, local_time, alerts>>

Heartbeat ==
    \/ HeartbeatTick \/ HeartbeatFetch \/ HeartbeatDueCheck
    \/ HeartbeatHandleResult \/ HeartbeatLoopEnd

\* The scheduler task, refresh_plugin and the commands of commands.rs (the
\* app settings stay as they are at start).
Next ==
    \/ Tick
    \/ \E t \in Tasks : PollPlugin(t, RawOutputs)
    \/ Heartbeat
    \/ RefreshPlugin
    \/ Invoke(Commands)
    \/ ServeRead \/ ServeMarkRead \/ ServeDismiss \/ ServeDismissAll
    \/ ServeSavePluginConfig(UserConfigs)

Spec == Init /\ [][Next]_vars

\* The Store's tables under polls of one configured plugin and the user's
\* mark_read and dismiss commands.
StoreConfig == PluginConfig("jira", TRUE, Some("k1"), 1, None, None, 0, None)
StoreCommands == {"mark_read", "dismiss_notification", "dismiss_all_notifications"}

InitStore ==
    /\ now = 0
    /\ lock = "free"
    /\ plugin_config = {StoreConfig}
    /\ items = {}
    /\ notifications = {}
    /\ pc = [t \in Tasks |-> IF t = "sched" THEN "sleep" ELSE "idle"]
    /\ hb = NoHb
    /\ poll = [t \in Tasks |-> NoPoll]
    /\ req = "none"
    /\ out = None
    /\ app_settings = NoSettings
    /\ local_time = <<12, 0>>
    /\ alerts = <<>>

NextStore ==
    \/ Tick
    \/ \E t \in Tasks : PollPlugin(t, StoreOutputs)
    \/ Heartbeat
    \/ RefreshPlugin
    \/ Invoke(StoreCommands)
    \/ ServeMarkRead \/ ServeDismiss \/ ServeDismissAll

SpecStore == InitStore /\ [][NextStore]_vars

\* The due check alone, on every (now, last_poll_at, poll_interval_secs) of the
\* scaled i64 range: the loop stands at a fetched config.
DueIntervals == {0 - 1, 0, 1, 3, I64_MAX}
DueConfigs ==
    { PluginConfig("jira", TRUE, Some("k1"), ivl, last, None, 0, None) :
        ivl \in DueIntervals,
        last \in {None} \cup {Some(x) : x \in I64_MIN..I64_MAX} }

InitDue ==
    /\ now = 0
    /\ lock = "free"
    /\ plugin_config = {}
    /\ items = {}
    /\ notifications = {}
    /\ pc = [t \in Tasks |-> IF t = "sched" THEN "loop" ELSE "idle"]
    /\ \E n \in 0..I64_MAX, c \in DueConfigs :
         hb = [now |-> n, configs |-> <<c>>, idx |-> 1, polled |-> {}]
    /\ poll = [t \in Tasks |-> NoPoll]
    /\ req = "none"
    /\ out = None
    /\ app_settings = NoSettings
    /\ local_time = <<12, 0>>
    /\ alerts = <<>>

SpecDue == InitDue /\ [][HeartbeatDueCheck]_vars

\* The commands and the scheduler under fair scheduling: a task that holds the
\* Store lock finishes its critical section, and a command waiting at
\* state.db.lock() gets the lock if it is free again and again.
FairCommands == {"get_items", "mark_read", "get_notifications",
                 "dismiss_notification", "save_plugin_config"}
FairConfigs == {StoreConfig}

NextFair ==
    \/ Tick
    \/ \E t \in Tasks : PollPlugin(t, {OutEmpty})
    \/ Heartbeat
    \/ RefreshPlugin
    \/ Invoke(FairCommands)
    \/ ServeRead \/ ServeMarkRead \/ ServeDismiss
    \/ ServeSavePluginConfig(FairConfigs)

FairSpec ==
    /\ InitStore
    /\ [][NextFair]_vars
    /\ WF_vars(\E t \in Tasks : PollReadConfig(t) \/ PollPersist(t))
    /\ SF_vars(ServeRead \/ ServeMarkRead \/ ServeDismiss
                 \/ ServeSavePluginConfig(FairConfigs))

\* The persist phase's alert decision alone, over the quiet-hours and focus
\* settings, the local time and the candidate's urgency: a poll of jira stands
\* at its persist phase with one item and one candidate for it.
TimesOfDay == {<<0, 0>>, <<2, 0>>, <<6, 0>>, <<9, 0>>, <<9, 5>>, <<10, 0>>, <<12, 0>>,
               <<17, 0>>, <<20, 0>>, <<22, 0>>, <<23, 30>>, <<23, 59>>}
\* The zero-padded 24-hour HH:MM text the settings hold for a time of day.
TimeText(t) ==
    <<48 + (t[1] \div 10), 48 + (t[1] % 10), 58, 48 + (t[2] \div 10), 48 + (t[2] % 10)>>
Urgencies == {"critical", "high", "medium", "low", "info"}
PolicySettings ==
    { [quiet_hours_start |-> qs, quiet_hours_end |-> qe,
       focus_mode_enabled |-> fe, focus_mode_threshold |-> ft] :
        qs \in {None} \cup {Some(TimeText(t)) : t \in TimesOfDay},
        qe \in {None} \cup {Some(TimeText(t)) : t \in TimesOfDay},
        fe \in {None, Some("0"), Some("1")},
        ft \in {None, Some("low"), Some("critical"), Some("urgent")} }

InitPolicy ==
    /\ now = 0
    /\ lock = "sched"
    /\ plugin_config = {StoreConfig}
    /\ items = {}
    /\ notifications = {}
    /\ pc = [t \in Tasks |-> IF t = "sched" THEN "p3_persist" ELSE "idle"]
    /\ hb = [now |-> 0, configs |-> <<StoreConfig>>, idx |-> 1, polled |-> {"jira"}]
    /\ \E u \in Urgencies :
         poll = [t \in Tasks |->
                   IF t = "sched"
                   THEN [NoPoll EXCEPT !.plugin_id = "jira", !.config = Some(StoreConfig),
                                       !.result = Some([items |-> <<ItemA1>>,
                                                        notifications |->
                                                          <<PluginNotification("a", "assigned", u)>>])]
                   ELSE NoPoll]
    /\ req = "none"
    /\ out = None
    /\ app_settings \in PolicySettings
    /\ local_time \in TimesOfDay
    /\ alerts = <<>>

SpecPolicy == InitPolicy /\ [][PollPersist("sched")]_vars

\* The persist phase's alert text alone, over the candidate's reason and
\* urgency, with no quiet hours and no focus mode.
Reasons ==
    { "assigned", "mentioned", "custom", "vip_sender", "pr_comment", "Assigned",
      "assigned_to_me,high_priority", "deadline_24h,mentioned,vip_sender",
      "ci_failed, pr_comment", "custom,assigned", "assigned,custom,other",
      " unread_over_4h ,custom ", "has_attachment,has_attachment",
      "pr_review_requested,priority_p1_blocker,deadline_approaching" }
ItemTitles == {"t1", "t2"}

InitReason ==
    /\ now = 0
    /\ lock = "sched"
    /\ plugin_config = {StoreConfig}
    /\ items = {}
    /\ notifications = {}
    /\ pc = [t \in Tasks |-> IF t = "sched" THEN "p3_persist" ELSE "idle"]
    /\ hb = [now |-> 0, configs |-> <<StoreConfig>>, idx |-> 1, polled |-> {"jira"}]
    /\ \E u \in Urgencies, r \in Reasons, title \in ItemTitles :
         poll = [t \in Tasks |->
                   IF t = "sched"
                   THEN [NoPoll EXCEPT !.plugin_id = "jira", !.config = Some(StoreConfig),
                                       !.result = Some([items |-> <<PluginItem("a", "1", "ticket", title)>>,
                                                        notifications |->
                                                          <<PluginNotification("a", r, u)>>])]
                   ELSE NoPoll]
    /\ req = "none"
    /\ out = None
    /\ app_settings = NoSettings
    /\ local_time = <<12, 0>>
    /\ alerts = <<>>

SpecReason == InitReason /\ [][PollPersist("sched")]_vars

\* The get_items command alone, over stored items of several timestamps,
\* sources and read flags, and over its arguments.
Stamps == {1, 2}
StoredItem(id, source, ts, read) ==
    [NexusItemOf([PluginItem(id, id, "ticket", "t1") EXCEPT !.source = source,
                                                            !.timestamp = ts], 0)
       EXCEPT !.is_read = read]
\* Up to three stored items, of distinct ids and source_ids.
StoredItemSets ==
    { { StoredItem(id, pick[id][1][1], pick[id][1][2], pick[id][1][3]) :
          id \in {i \in {"a", "b", "c"} : IsSome(pick[i])} } :
        pick \in [ {"a", "b", "c"} ->
                     {None} \cup { Some(<<src, ts, read>>) :
                                     src \in Plugins, ts \in Stamps, read \in BOOLEAN } ] }
\* The limit argument: absent, or an i64.
LimitArgs == {None, Some(-1), Some(0), Some(1), Some(2)}

\* commands::get_items: lock, db.get_items(source, unread_only,
\* limit.unwrap_or(100)), unlock; out is the Vec returned, with the arguments
\* of the call.
ServeGetItems(limits) ==
    /\ req = "get_items"
    /\ lock = "free"
    /\ \E source \in {None} \cup {Some(p) : p \in Plugins}, unread_only \in BOOLEAN,
          limit \in limits :
          \E result \in get_items(items, source, unread_only,
                                   IF IsSome(limit) THEN Unwrap(limit) ELSE 100) :
             out' = Some([command |-> "get_items", source |-> source,
                          unread_only |-> unread_only, limit |-> limit,
                          items |-> result])
    /\ req' = "none"
    /\ UNCHANGED <<now, lock, plugin_config, items, notifications, pc, hb, poll,
                 app_settings, local_time, alerts>>

InitItems ==
    /\ now = 0
    /\ lock = "free"
    /\ plugin_config = {}
    /\ items \in StoredItemSets
    /\ notifications = {}
    /\ pc = [t \in Tasks |-> IF t = "sched" THEN "sleep" ELSE "idle"]
    /\ hb = NoHb
    /\ poll = [t \in Tasks |-> NoPoll]
    /\ req = "none"
    /\ out = None
    /\ app_settings = NoSettings
    /\ local_time = <<12, 0>>
    /\ alerts = <<>>

NextItems == Invoke({"get_items"}) \/ ServeGetItems(LimitArgs)

SpecItems == InitItems /\ [][NextItems]_vars


\* ============================================================ claims
ConfigRow(rows, plugin_id) == Unwrap(get_plugin_config(rows, plugin_id))
ActiveFor(item_id, reason) ==
    {n \in notifications : n.item_id = item_id /\ n.reason = reason /\ ~n.is_dismissed}

\* C1: between the end of poll_plugin's read phase and the start of its persist
\* phase (the plugin file is resolved, the subprocess runs, its output is parsed,
\* the task waits to lock again) the polling task does not hold the Store lock.
C1_NoLockInExecutePhase ==
    \A t \in Tasks : pc[t] \in {"path", "exec", "parse", "p3_lock"} => lock # t

\* A plugin subprocess of a poll is running.
C1_Witness == pc["sched"] = "exec" /\ IsSome(poll["sched"].config)

\* C2: no task holds the Store lock while it waits on a plugin subprocess or
\* waits to lock the same lock again, whichever call site started the poll.
C2_NoLockAcrossSubprocess ==
    \A t \in Tasks :
        lock = t => pc[t] \notin {"p1_lock", "path", "exec", "parse", "p3_lock"}

\* C3: a Store command that waits for the lock while a plugin subprocess runs
\* (or hangs forever) eventually gets the lock and completes.
C3_RequestsComplete ==
    (req # "none" /\ pc["sched"] = "exec") ~> (req = "none")

\* C4: only mark_read changes the read flag of a stored item: every other step,
\* a persist phase whose upsert conflicts on (source, source_id) included,
\* leaves each stored item's read flag as it was.
C4_ReadFlagOnlyByMarkRead ==
    [][ ~(req = "mark_read" /\ req' = "none")
        => \A r \in items : \E r2 \in items' : r2.id = r.id /\ r2.is_read = r.is_read ]_vars

\* A poll has just re-ingested (updated in place) an item the user had marked read.
C4_Witness ==
    /\ pc["sched"] = "ret"
    /\ Unwrap(poll["sched"].ret).ok
    /\ \E r \in items : /\ r.is_read
                        /\ r.item_type = "ticket" /\ r.title = "t2"
                        /\ r.created_at < r.updated_at

\* C5: at most one non-dismissed notification exists for each (item_id, reason).
C5_OneActivePerPair ==
    \A n1, n2 \in notifications :
        (~n1.is_dismissed /\ ~n2.is_dismissed
         /\ n1.item_id = n2.item_id /\ n1.reason = n2.reason) => n1 = n2

\* A result with the same candidate twice was persisted, the notification was
\* dismissed, and a later poll raised the pair again.
C5_Witness ==
    /\ \E r \in items : r.title = "t2"
    /\ Cardinality(ActiveFor("a", "assigned")) = 1
    /\ \E n \in notifications : n.is_dismissed /\ n.item_id = "a" /\ n.reason = "assigned"

\* C6: the persist phase's write to the plugin's config row leaves the row's
\* is_enabled, credentials, poll_interval_secs and settings as they are in the
\* Store (as the user last saved them).
C6_PollKeepsUserFields ==
    [][ \A t \in Tasks :
          (pc[t] = "p3_persist" /\ IsSome(get_plugin_config(plugin_config, poll[t].plugin_id)))
          => LET old == ConfigRow(plugin_config, poll[t].plugin_id)
                 new == ConfigRow(plugin_config', poll[t].plugin_id)
             IN /\ new.is_enabled = old.is_enabled
                /\ new.credentials = old.credentials
                /\ new.poll_interval_secs = old.poll_interval_secs
                /\ new.settings = old.settings ]_vars

\* C7: whatever a poll fails with, the heartbeat task stays alive, and when the
\* tick's loop is over every config that was due has been polled.
C7_TickPollsEveryDuePlugin ==
    pc["sched"] = "loop" /\ hb.idx > Len(hb.configs)
    => \A i \in 1..Len(hb.configs) :
          IsDue(hb.now, hb.configs[i]) => hb.configs[i].plugin_id \in hb.polled
C7_FailureIsolated ==
    /\ pc["sched"] # "panicked"
    /\ C7_TickPollsEveryDuePlugin

\* C8: the due check finds a fetched config due exactly when last_poll_at is
\* absent or now - last_poll_at >= poll_interval_secs, and skips it otherwise.
DueByClaim(tnow, config) ==
    \/ ~IsSome(config.last_poll_at)
    \/ tnow - Unwrap(config.last_poll_at) >= config.poll_interval_secs
C8_DueExactly ==
    (pc["sched"] # "loop" \/ hb.idx > 1)
    => (pc["sched"] = "p1_lock" <=> DueByClaim(hb.now, hb.configs[1]))

\* C9: a poll is past its read phase only with a config that was enabled and had
\* credentials, and every config the heartbeat loop fetched is enabled and has
\* credentials.
C9_NeverPollsDisabled ==
    /\ \A t \in Tasks :
          pc[t] \in {"path", "exec", "parse", "p3_lock", "p3_persist"}
          => /\ IsSome(poll[t].config)
             /\ Unwrap(poll[t].config).is_enabled
             /\ IsSome(Unwrap(poll[t].config).credentials)
    /\ \A i \in 1..Len(hb.configs) :
          hb.configs[i].is_enabled /\ IsSome(hb.configs[i].credentials)

\* A subprocess runs for one plugin while another plugin's row is disabled or
\* has no credentials and is not in the fetched list.
C9_Witness ==
    /\ pc["sched"] = "exec"
    /\ \E c \in plugin_config :
          /\ ~(c.is_enabled /\ IsSome(c.credentials))
          /\ \A i \in 1..Len(hb.configs) : hb.configs[i].plugin_id # c.plugin_id

\* C10: the step in which poll_plugin succeeds leaves the plugin's row with
\* last_poll_at = the poll's now, no last_error and error_count = 0.
C10_SuccessResetsBookkeeping ==
    [][ \A t \in Tasks :
          (pc[t] = "p3_persist" /\ pc'[t] = "ret" /\ Unwrap(poll'[t].ret).ok)
          => LET row == ConfigRow(plugin_config', poll[t].plugin_id)
             IN /\ row.last_poll_at = Some(poll[t].now)
                /\ row.last_error = None
                /\ row.error_count = 0 ]_vars

\* A poll has just succeeded for a config that was read with last_error set and
\* error_count = 1.
C10_Witness ==
    /\ pc["sched"] = "ret"
    /\ Unwrap(poll["sched"].ret).ok
    /\ \E c \in plugin_config :
          /\ c.plugin_id = poll["sched"].plugin_id
          /\ c.credentials = Some("k2") /\ c.error_count = 0 /\ c.last_error = None

\* The positions of a task inside poll_plugin, up to its return to the caller.
PollingPcs == {"p1_lock", "p1_read", "path", "exec", "parse", "p3_lock", "p3_persist", "ret"}
\* The heartbeat loop handles the result poll_plugin has returned.
HandlesResult == pc["sched"] = "ret" /\ pc'["sched"] # "ret"
SilentKinds == {"NotConfigured", "Disabled", "MissingCredentials"}
RealErrorKinds == {"PluginNotFound", "PathResolutionError", "PluginExecutionError", "ParseError"}

\* C11: while the heartbeat loop polls a fetched config, that config was due:
\* a config with last_poll_at set, poll_interval_secs > 0 and a tick time below
\* last_poll_at + poll_interval_secs is skipped, and no poll is started for it.
C11_NotDueNotPolled ==
    (pc["sched"] \in PollingPcs /\ hb.idx <= Len(hb.configs))
    => LET c == hb.configs[hb.idx] IN
       ~(/\ IsSome(c.last_poll_at)
         /\ c.poll_interval_secs > 0
         /\ hb.now < Unwrap(c.last_poll_at) + c.poll_interval_secs)

\* A poll succeeded at time 0 for a config with interval 2; the tick at time 1
\* fetched the row it wrote and skipped it.
C11_Witness ==
    /\ pc["sched"] = "loop" /\ hb.now = 1 /\ hb.idx = 2 /\ hb.polled = {}
    /\ Len(hb.configs) = 1
    /\ hb.configs[1].credentials = Some("k2")
    /\ hb.configs[1].last_poll_at = Some(0)
    /\ hb.configs[1].last_error = None /\ hb.configs[1].error_count = 0

\* C12: when the printed output is not a valid result payload (a key is
\* missing, or it is not JSON), the parse step makes poll_plugin return a
\* ParseError and leaves the Store as it is.
ValidPayload(raw) == raw.wellformed /\ IsSome(raw.items) /\ IsSome(raw.notifications)
C12_ParseErrorNoWrites ==
    [][ \A t \in Tasks :
          (pc[t] = "parse" /\ pc'[t] # "parse" /\ ~ValidPayload(Unwrap(poll[t].raw)))
          => /\ pc'[t] = "ret"
             /\ Unwrap(poll'[t].ret).kind = "ParseError"
             /\ UNCHANGED store ]_vars

\* C13: a poll that fails with NotConfigured, Disabled or MissingCredentials
\* writes nothing to the Store, and the heartbeat loop logs nothing for it and
\* writes nothing either (error_count and last_error stay as they are).
C13_SilentFailures ==
    [][ /\ \A t \in Tasks :
             (pc[t] # "ret" /\ pc'[t] = "ret" /\ Unwrap(poll'[t].ret).kind \in SilentKinds)
             => UNCHANGED store
        /\ (HandlesResult /\ Unwrap(poll["sched"].ret).kind \in SilentKinds)
             => (~Unwrap(out').logged /\ UNCHANGED store) ]_vars

\* The loop has handled a poll that found its plugin disabled in the meantime.
C13_Witness ==
    /\ IsSome(out) /\ Unwrap(out).kind = "Disabled" /\ ~Unwrap(out).logged
    /\ \E c \in plugin_config :
          c.plugin_id = Unwrap(out).plugin_id /\ ~c.is_enabled /\ c.error_count = 0

\* C14: every failure of a poll other than NotConfigured, Disabled and
\* MissingCredentials is logged by the heartbeat loop, whatever its text holds.
C14_RealFailuresLogged ==
    [][ (/\ HandlesResult
         /\ ~Unwrap(poll["sched"].ret).ok
         /\ Unwrap(poll["sched"].ret).kind \notin SilentKinds)
        => Unwrap(out').logged ]_vars

\* C15: when the heartbeat loop is through with a poll that failed with a real
\* error, the plugin's row has error_count one higher and last_error set.
C15_FailureCounted ==
    [][ (/\ HandlesResult
         /\ Unwrap(poll["sched"].ret).kind \in RealErrorKinds
         /\ IsSome(get_plugin_config(plugin_config, poll["sched"].plugin_id)))
        => LET old == ConfigRow(plugin_config, poll["sched"].plugin_id)
               new == ConfigRow(plugin_config', poll["sched"].plugin_id)
           IN /\ new.error_count = old.error_count + 1
              /\ IsSome(new.last_error) ]_vars

C17_OnePollAtATime ==
    /\ pc["sched"] \notin PollingPcs => poll["sched"] = NoPoll
    /\ pc["sched"] \in PollingPcs
       => /\ hb.idx <= Len(hb.configs)
          /\ poll["sched"].plugin_id = hb.configs[hb.idx].plugin_id

\* The tick's second due plugin runs its subprocess after the first has returned.
C17_Witness ==
    /\ pc["sched"] = "exec" /\ hb.idx = 2 /\ Len(hb.configs) = 2
    /\ hb.polled = {"jira", "github"}

\* The stored notifications of one (item_id, reason) pair.
PairRows(rows, item_id, reason) ==
    {n \in rows : n.item_id = item_id /\ n.reason = reason}
\* The first candidate of a result with the pair.
FirstCandidate(pns, item_id, reason) ==
    pns[CHOOSE k \in 1..Len(pns) :
          /\ pns[k].item_id = item_id /\ pns[k].reason = reason
          /\ \A j \in 1..(k - 1) : ~(pns[j].item_id = item_id /\ pns[j].reason = reason)]
\* The persist step of task t leaves the pair's notifications as they are.
CandidateSkipped(item_id, reason) ==
    PairRows(notifications', item_id, reason) = PairRows(notifications, item_id, reason)
\* The persist step of task t adds one notification for the pair: not
\* dismissed, with an unused id, the poll's timestamp and the candidate's urgency.
CandidateInserted(t, item_id, reason) ==
    LET new == PairRows(notifications', item_id, reason) \ notifications
        pns == Unwrap(poll[t].result).notifications
    IN /\ PairRows(notifications, item_id, reason) \subseteq notifications'
       /\ Cardinality(new) = 1
       /\ \A n \in new :
            /\ ~n.is_dismissed
            /\ n.created_at = poll[t].now
            /\ n.urgency = FirstCandidate(pns, item_id, reason).urgency
            /\ \A m \in notifications : m.id # n.id

\* C18 as stated: in every persist phase each candidate pair with an active
\* notification is skipped with no change, and each pair without one gets a
\* new non-dismissed notification with a fresh id, the poll's timestamp and the
\* candidate's reason and urgency.
C18_SkippedOrInserted ==
    [][ \A t \in Tasks :
          (pc[t] = "p3_persist" /\ pc'[t] = "ret")
          => \A pr \in CandidatePairs([notifications |-> Some(Unwrap(poll[t].result).notifications)]) :
                IF \E n \in PairRows(notifications, pr[1], pr[2]) : ~n.is_dismissed
                THEN CandidateSkipped(pr[1], pr[2])
                ELSE CandidateInserted(t, pr[1], pr[2]) ]_vars

\* C18 amended: the same, the insertion for a persist phase that ends without
\* a store error.
C18_SkippedOrInsertedIfAccepted ==
    [][ \A t \in Tasks :
          (pc[t] = "p3_persist" /\ pc'[t] = "ret")
          => \A pr \in CandidatePairs([notifications |-> Some(Unwrap(poll[t].result).notifications)]) :
                IF \E n \in PairRows(notifications, pr[1], pr[2]) : ~n.is_dismissed
                THEN CandidateSkipped(pr[1], pr[2])
                ELSE Unwrap(poll'[t].ret).ok => CandidateInserted(t, pr[1], pr[2]) ]_vars

\* A poll has just inserted (a, assigned) while (a, mentioned) was active.
C18_Witness ==
    /\ pc["sched"] = "ret" /\ Unwrap(poll["sched"].ret).ok
    /\ \E n \in notifications :
          /\ n.item_id = "a" /\ n.reason = "assigned" /\ ~n.is_dismissed
          /\ n.created_at = 1
    /\ \E n \in notifications :
          /\ n.item_id = "a" /\ n.reason = "mentioned" /\ ~n.is_dismissed
          /\ n.created_at = 0

\* The minute of the day a zero-padded HH:MM text stands for.
MinuteOfDay(text) ==
    ((text[1] - 48) * 10 + (text[2] - 48)) * 60 + (text[4] - 48) * 10 + (text[5] - 48)
\* The quiet-hours window as the claims state it, on times of day.
InWindow(start, end, tnow) ==
    \/ start <= end /\ start <= tnow /\ tnow < end
    \/ start > end /\ (tnow >= start \/ tnow < end)
BothBoundsSet ==
    IsSome(app_settings["quiet_hours_start"]) /\ IsSome(app_settings["quiet_hours_end"])
\* Both bounds are set and the local time is inside the window they describe.
InsideQuietHours ==
    /\ BothBoundsSet
    /\ InWindow(MinuteOfDay(Unwrap(app_settings["quiet_hours_start"])),
                MinuteOfDay(Unwrap(app_settings["quiet_hours_end"])),
                local_time[1] * 60 + local_time[2])

\* C19: a persist phase that ran inside the quiet hours has shown no native
\* alert, whatever the candidate's urgency and whatever the focus settings.
C19_QuietHoursSuppress ==
    (pc["sched"] = "ret" /\ InsideQuietHours) => alerts = <<>>

\* A critical candidate was inserted at 23:30 with quiet hours 22:00-06:00 and
\* focus mode on with threshold low: no alert.
C19_Witness ==
    /\ pc["sched"] = "ret" /\ Unwrap(poll["sched"].ret).ok
    /\ app_settings["quiet_hours_start"] = Some(TimeText(<<22, 0>>))
    /\ app_settings["quiet_hours_end"] = Some(TimeText(<<6, 0>>))
    /\ app_settings["focus_mode_enabled"] = Some("1")
    /\ app_settings["focus_mode_threshold"] = Some("low")
    /\ local_time = <<23, 30>>
    /\ \E n \in notifications : n.urgency = "critical" /\ ~n.is_dismissed
    /\ alerts = <<>>

\* C20: for zero-padded HH:MM bounds and local time, is_in_quiet_hours is true
\* exactly when start <= end and start <= now < end, or start > end and
\* (now >= start or now < end), as times of day.
C20_QuietHoursWindow ==
    BothBoundsSet
    => (is_in_quiet_hours(Unwrap(app_settings["quiet_hours_start"]),
                          Unwrap(app_settings["quiet_hours_end"]), local_time)
        <=> InsideQuietHours)

\* At 02:00 with quiet hours 22:00-06:00 and no focus mode a high candidate was
\* inserted without an alert.
C20_Witness ==
    /\ pc["sched"] = "ret"
    /\ app_settings["quiet_hours_start"] = Some(TimeText(<<22, 0>>))
    /\ app_settings["quiet_hours_end"] = Some(TimeText(<<6, 0>>))
    /\ app_settings["focus_mode_enabled"] = None
    /\ local_time = <<2, 0>>
    /\ \E n \in notifications : n.urgency = "high"
    /\ alerts = <<>>

\* The rank of an urgency as the claims state it.
Rank(u) ==
    IF u = "critical" THEN 4 ELSE IF u = "high" THEN 3
    ELSE IF u = "medium" THEN 2 ELSE IF u = "low" THEN 1 ELSE 0
FocusEnabled == app_settings["focus_mode_enabled"] = Some("1")
\* The configured threshold, high when none is configured.
ThresholdOrHigh ==
    IF IsSome(app_settings["focus_mode_threshold"])
    THEN Unwrap(app_settings["focus_mode_threshold"]) ELSE "high"
\* The urgencies send_native_notification has an alert for.
AlertUrgencies == {"critical", "high", "medium"}

\* C21: outside quiet hours, should_send_notification(urgency) is true exactly
\* when focus mode is not enabled or rank(urgency) >= rank(threshold), the
\* threshold being high when none is configured; and a persist phase that
\* inserted a critical, high or medium candidate has shown its alert exactly
\* in that case.
C21_FocusThreshold ==
    ~InsideQuietHours
    => /\ \A u \in Urgencies :
            should_send_notification(app_settings, local_time, u)
            <=> (FocusEnabled => Rank(u) >= Rank(ThresholdOrHigh))
       /\ pc["sched"] = "ret"
          => \A n \in notifications :
                n.urgency \in AlertUrgencies
                => (alerts # <<>>
                    <=> (FocusEnabled => Rank(n.urgency) >= Rank(ThresholdOrHigh)))

\* Outside quiet hours, focus mode on and no threshold configured: a high
\* candidate was inserted and its alert shown.
C21_Witness ==
    /\ pc["sched"] = "ret" /\ Unwrap(poll["sched"].ret).ok
    /\ ~BothBoundsSet
    /\ app_settings["focus_mode_enabled"] = Some("1")
    /\ app_settings["focus_mode_threshold"] = None
    /\ \E n \in notifications : n.urgency = "high" /\ ~n.is_dismissed
    /\ Len(alerts) = 1

\* The candidates of the result the task t is persisting.
CandidatesOf(t) == Unwrap(poll[t].result).notifications

\* C22: a persist phase shows no more native alerts than it inserted critical,
\* high or medium notifications, so none for a low or unknown urgency,
\* whatever the quiet-hours and focus settings; and a candidate of such an
\* urgency with no active notification for its pair is still inserted.
C22_NoAlertForLowOrUnknown ==
    [][ (pc["sched"] = "p3_persist" /\ pc'["sched"] = "ret")
        => LET added == notifications' \ notifications IN
           /\ Len(alerts') <= Cardinality({n \in added : n.urgency \in AlertUrgencies})
           /\ \A k \in 1..Len(CandidatesOf("sched")) :
                 LET pn == CandidatesOf("sched")[k] IN
                 ( /\ pn.urgency \notin AlertUrgencies
                   /\ ~\E n \in PairRows(notifications, pn.item_id, pn.reason) : ~n.is_dismissed
                   /\ Unwrap(poll'["sched"].ret).ok )
                 => \E n \in added :
                       /\ n.item_id = pn.item_id /\ n.reason = pn.reason
                       /\ n.urgency = pn.urgency /\ ~n.is_dismissed ]_vars

\* Focus mode on with threshold low, no quiet hours: a low candidate was
\* inserted and no alert shown.
C22_Witness ==
    /\ pc["sched"] = "ret" /\ Unwrap(poll["sched"].ret).ok
    /\ ~BothBoundsSet
    /\ app_settings["focus_mode_enabled"] = Some("1")
    /\ app_settings["focus_mode_threshold"] = Some("low")
    /\ \E n \in notifications : n.urgency = "low" /\ ~n.is_dismissed
    /\ alerts = <<>>

\* The result holds one item that is not stored (neither its key nor its id)
\* and one medium candidate for it.
OneNewItemOneMediumCandidate(res) ==
    /\ Len(res.items) = 1 /\ Len(res.notifications) = 1
    /\ ~\E i \in items : i.id = res.items[1].id
                          \/ (i.source = res.items[1].source
                              /\ i.source_id = res.items[1].source_id)
    /\ res.notifications[1].item_id = res.items[1].id
    /\ res.notifications[1].urgency = "medium"

\* C23: with no quiet hours and no focus mode, a persist phase of one new item
\* and one medium candidate for it stores one more item and one more
\* notification (exactly one of each on an empty Store), ends with
\* last_poll_at at the poll's time and shows exactly one native alert; and any
\* persist phase shows at most one alert per notification it inserted, so
\* none for a skipped candidate.
C23_OnePollOneAlert ==
    [][ \A t \in Tasks :
          (pc[t] = "p3_persist" /\ pc'[t] = "ret")
          => LET res == Unwrap(poll[t].result)
                 added == notifications' \ notifications
             IN /\ Len(alerts') <= Cardinality(added)
                /\ (OneNewItemOneMediumCandidate(res) /\ app_settings = NoSettings)
                   => /\ Cardinality(items') = Cardinality(items) + 1
                      /\ Cardinality(added) = 1
                      /\ notifications \subseteq notifications'
                      /\ ConfigRow(plugin_config', poll[t].plugin_id).last_poll_at
                            = Some(poll[t].now)
                      /\ Len(alerts') = 1 ]_vars

\* The first poll of an empty Store brought item a and a medium candidate for
\* it: one item, one notification, one alert under the item's bare title.
C23_Witness ==
    /\ pc["sched"] = "ret" /\ Unwrap(poll["sched"].ret).ok
    /\ Cardinality(items) = 1 /\ Cardinality(notifications) = 1
    /\ \E n \in notifications :
          /\ n.item_id = "a" /\ n.urgency = "medium"
          /\ ConfigRow(plugin_config, "jira").last_poll_at = Some(n.created_at)
    /\ Len(alerts) = 1 /\ alerts[1].title = <<"t1">>

\* C24: when a persist phase upserts an item whose (source, source_id) is
\* stored, the stored row takes the incoming type, title, summary, url,
\* author, timestamp, priority, metadata and tags, and keeps its read flag,
\* created_at and id.
C24_ConflictTakesIncoming ==
    [][ \A t \in Tasks :
          (pc[t] = "p3_persist" /\ pc'[t] = "ret" /\ Unwrap(poll'[t].ret).ok)
          => \A k \in 1..Len(Unwrap(poll[t].result).items) :
                LET incoming == NexusItemOf(Unwrap(poll[t].result).items[k], poll[t].now) IN
                \A old \in items :
                    (old.source = incoming.source /\ old.source_id = incoming.source_id)
                    => \E new \in items' :
                          /\ new.source = incoming.source
                          /\ new.source_id = incoming.source_id
                          /\ new.item_type = incoming.item_type
                          /\ new.title = incoming.title
                          /\ new.summary = incoming.summary
                          /\ new.url = incoming.url
                          /\ new.author = incoming.author
                          /\ new.timestamp = incoming.timestamp
                          /\ new.priority = incoming.priority
                          /\ new.metadata = incoming.metadata
                          /\ new.tags = incoming.tags
                          /\ new.is_read = old.is_read
                          /\ new.created_at = old.created_at
                          /\ new.id = old.id ]_vars

\* C25: in every reachable state no two stored items share (source, source_id)
\* and no two share an id; and a persist phase whose items all have a stored
\* (source, source_id) does not increase the number of stored items.
C25_UniqueItems ==
    /\ [](\A i, j \in items :
            ((i.source = j.source /\ i.source_id = j.source_id) \/ i.id = j.id) => i = j)
    /\ [][ \A t \in Tasks :
             ( /\ pc[t] = "p3_persist" /\ pc'[t] = "ret"
               /\ \A k \in 1..Len(Unwrap(poll[t].result).items) :
                     \E old \in items :
                        /\ old.source = Unwrap(poll[t].result).items[k].source
                        /\ old.source_id = Unwrap(poll[t].result).items[k].source_id )
             => Cardinality(items') <= Cardinality(items) ]_vars

\* Item (jira, 1) was stored at time 0 and ingested again at time 1 with a
\* new title: still one row.
C25_Witness ==
    /\ pc["sched"] = "ret" /\ Unwrap(poll["sched"].ret).ok
    /\ Cardinality(items) = 1
    /\ \E i \in items : /\ i.source = "jira" /\ i.source_id = "1"
                         /\ i.created_at = 0 /\ i.updated_at = 1 /\ i.title = "t2"

\* The fields of a stored item the claims call its content, with its key and
\* its read flag.
ContentOf(i) ==
    [source |-> i.source, source_id |-> i.source_id, item_type |-> i.item_type,
     title |-> i.title, summary |-> i.summary, url |-> i.url, author |-> i.author,
     timestamp |-> i.timestamp, priority |-> i.priority, metadata |-> i.metadata,
     tags |-> i.tags, is_read |-> i.is_read]
ActivePairs(rows) == {<<n.item_id, n.reason>> : n \in {m \in rows : ~m.is_dismissed}}

\* C26: persisting the result a persist phase has just persisted once more,
\* at the same or a later time and with nothing done in between, leaves the
\* stored items with the same content fields and read flags and the same
\* active (item_id, reason) pairs, inserts no notification and shows no
\* native alert.
C26_PersistTwice ==
    [][ \A t \in Tasks :
          (pc[t] = "p3_persist" /\ pc'[t] = "ret")
          => \A ts2 \in {poll[t].now, poll[t].now + 1} :
               LET res == Unwrap(poll[t].result)
                   its == PersistItems(items', res.items, ts2)
                   nts == PersistNotifications(notifications', its.rows, res.notifications,
                              ts2, res.items, app_settings, local_time, <<>>)
               IN /\ {ContentOf(i) : i \in its.rows} = {ContentOf(i) : i \in items'}
                  /\ its.ok => /\ nts.rows = notifications'
                               /\ ActivePairs(nts.rows) = ActivePairs(notifications')
                               /\ nts.alerts = <<>> ]_vars

\* The poll at time 1 persisted the result the poll at time 0 had persisted
\* (item a, candidate (a, assigned)): one unread item, the one notification
\* of time 0, no alert.
C26_Witness ==
    /\ pc["sched"] = "ret" /\ Unwrap(poll["sched"].ret).ok
    /\ ConfigRow(plugin_config, "jira").last_poll_at = Some(1)
    /\ \E i \in items : /\ items = {i} /\ i.id = "a" /\ i.title = "t1" /\ ~i.is_read
                         /\ i.created_at = 0 /\ i.updated_at = 1
    /\ \E n \in notifications :
          /\ notifications = {n} /\ n.item_id = "a" /\ n.reason = "assigned"
          /\ ~n.is_dismissed /\ n.created_at = 0
    /\ alerts = <<>>

\* The plugin's row is missing, disabled or without credentials.
Unusable(rows, plugin_id) ==
    \/ ~\E c \in rows : c.plugin_id = plugin_id
    \/ \E c \in rows : c.plugin_id = plugin_id /\ (~c.is_enabled \/ c.credentials = None)

\* C27: a poll whose read phase finds the plugin missing, disabled or without
\* credentials returns an error from that step, with the Store lock free, no
\* subprocess started and the Store as it was; and a poll that returns because
\* the plugin file does not exist does not hold the lock, has started no
\* subprocess and has left the Store as it was.
C27_ReadPhaseFailure ==
    [][ \A t \in Tasks :
          /\ ( /\ pc[t] = "p1_read" /\ pc'[t] # "p1_read"
               /\ Unusable(plugin_config, poll[t].plugin_id) )
             => /\ pc'[t] = "ret"
                /\ ~Unwrap(poll'[t].ret).ok
                /\ Unwrap(poll'[t].ret).kind
                      \in {"NotConfigured", "Disabled", "MissingCredentials"}
                /\ lock' = "free"
                /\ UNCHANGED store
          /\ ( /\ pc[t] = "path" /\ pc'[t] = "ret"
               /\ Unwrap(poll'[t].ret).kind = "PluginNotFound" )
             => /\ ~Unwrap(poll'[t].ret).ok
                /\ lock # t /\ lock' # t
                /\ UNCHANGED store ]_vars

\* The plugin was disabled after the heartbeat had fetched it: its poll
\* returned the error from the read phase and the lock is free.
C27_Witness ==
    /\ pc["sched"] = "ret"
    /\ Unwrap(poll["sched"].ret).kind = "Disabled"
    /\ lock = "free"
    /\ \E c \in plugin_config : c.plugin_id = poll["sched"].plugin_id /\ ~c.is_enabled

\* The text is payload between whitespace, and payload neither starts nor
\* ends with whitespace.
IsTrimmedOf(payload, text) ==
    /\ payload = <<>> \/ (payload[1] \notin Whitespace /\ payload[Len(payload)] \notin Whitespace)
    /\ \E i, j \in 0..Len(text) :
          /\ i + Len(payload) + j = Len(text)
          /\ \A k \in 1..i : text[k] \in Whitespace
          /\ \A k \in 1..Len(payload) : text[i + k] = payload[k]
          /\ \A k \in 1..j : text[i + Len(payload) + k] \in Whitespace

\* C28: execute_plugin returns an error when the subprocess exits non-zero,
\* whatever it printed, and when the path does not resolve or deno cannot be
\* launched; when the subprocess exits with status zero, and only then, it
\* returns stdout without its leading and trailing whitespace, which is what
\* the poll goes on to parse.
C28_ExecutePluginResult ==
    [][ \A t \in Tasks :
          /\ (pc[t] = "exec" /\ pc'[t] # "exec")
             => LET output == Unwrap(poll[t].output) IN
                IF output.status # 0
                THEN /\ pc'[t] = "ret"
                     /\ ~Unwrap(poll'[t].ret).ok
                     /\ Unwrap(poll'[t].ret).kind = "PluginExecutionError"
                ELSE /\ pc'[t] = "parse"
                     /\ \E payload \in {SubSeq(output.stdout, i, j) :
                                           i \in 1..(Len(output.stdout) + 1),
                                           j \in 0..Len(output.stdout)} :
                           /\ IsTrimmedOf(payload, output.stdout)
                           /\ poll'[t].raw = Some(JsonOf(payload))
          /\ (pc[t] = "path" /\ pc'[t] = "ret") => ~Unwrap(poll'[t].ret).ok
          /\ (pc[t] = "path" /\ pc'[t] # "path")
             => (pc'[t] = "exec" <=> IsSome(poll'[t].output)) ]_vars

\* The subprocess exited with status 1 and "disabled" on stderr: the poll
\* returned an execution error that carries the stderr.
C28_Witness ==
    /\ pc["sched"] = "ret"
    /\ ~Unwrap(poll["sched"].ret).ok
    /\ Unwrap(poll["sched"].ret).kind = "PluginExecutionError"
    /\ Unwrap(poll["sched"].ret).words = {"disabled"}
    /\ items = {} /\ notifications = {}
    /\ \E c \in plugin_config : c.plugin_id = poll["sched"].plugin_id /\ c.last_poll_at = None

\* The codes of a reason text, in order: its chunks other than the commas and
\* the spaces around the codes.
CodesIn(text) == SelectSeq(text, LAMBDA c : c \notin {",", " "})
\* The fixed table as the claims state it; any other code is its own label.
LabelOf(code) ==
    IF code \in {"assigned_to_me", "assigned"} THEN "Assigned to you"
    ELSE IF code \in {"high_priority", "priority_p1_blocker"} THEN "High priority"
    ELSE IF code \in {"deadline_approaching", "deadline_24h"} THEN "Deadline approaching"
    ELSE IF code \in {"mentioned_in_comment", "mentioned"} THEN "You were mentioned"
    ELSE IF code = "vip_sender" THEN "VIP sender"
    ELSE IF code = "unread_over_4h" THEN "Unread for 4+ hours"
    ELSE IF code = "has_attachment" THEN "Has attachment"
    ELSE IF code = "pr_review_requested" THEN "Review requested"
    ELSE IF code = "ci_failed" THEN "CI failed"
    ELSE IF code = "pr_comment" THEN "Comment on your PR"
    ELSE code
\* The labels of the codes, in order, with ", " between two of them.
RECURSIVE JoinedLabels(_)
JoinedLabels(codes) ==
    IF codes = <<>> THEN <<>>
    ELSE IF Len(codes) = 1 THEN <<LabelOf(codes[1])>>
    ELSE <<LabelOf(codes[1]), ",", " ">> \o JoinedLabels(Tail(codes))

\* C29: the body of the alert shown for an inserted notification is the
\* labels of its reason's comma-joined codes, one per code and in their
\* order, a code outside the table standing for itself, joined with ", ".
C29_HumanizeReason ==
    (pc["sched"] = "ret" /\ alerts # <<>>)
    => \A n \in notifications :
          alerts[1].body = JoinedLabels(CodesIn(ReasonText(n.reason)))

\* The alert for the reason "assigned,custom,other" reads
\* "Assigned to you, custom, other".
C29_Witness ==
    /\ pc["sched"] = "ret"
    /\ \E n \in notifications : n.reason = "assigned,custom,other"
    /\ Len(alerts) = 1
    /\ alerts[1].body = <<"Assigned to you", ",", " ", "custom", ",", " ", "other">>

\* The prefix the claims give an alert's title, as text: the tag and a space.
TitlePrefix(urgency) ==
    IF urgency = "critical" THEN <<"[CRITICAL]", " ">>
    ELSE IF urgency = "high" THEN <<"[HIGH]", " ">>
    ELSE <<>>

\* C30: with no quiet hours and no focus mode, the persist phase that inserted
\* a critical, high or medium notification has shown one alert, and its title
\* is the item's title after "[CRITICAL] " for critical, after "[HIGH] " for
\* high, and the item's title alone for medium.
C30_AlertTitle ==
    pc["sched"] = "ret"
    => \A n \in notifications :
          n.urgency \in {"critical", "high", "medium"}
          => /\ Len(alerts) = 1
             /\ \E i \in items :
                   /\ i.id = n.item_id
                   /\ alerts[1].title = TitlePrefix(n.urgency) \o <<i.title>>

\* A critical notification for the item titled t2 was shown as "[CRITICAL] t2".
C30_Witness ==
    /\ pc["sched"] = "ret"
    /\ \E n \in notifications : n.urgency = "critical"
    /\ Len(alerts) = 1
    /\ alerts[1].title = <<"[CRITICAL]", " ", "t2">>

\* The get_items call whose return value out holds.
Returned == Unwrap(out)
RequestedLimit == IF IsSome(Returned.limit) THEN Unwrap(Returned.limit) ELSE 100
\* The stored items the call's source and unread filters admit.
Matching ==
    {i \in items : (IsSome(Returned.source) => i.source = Unwrap(Returned.source))
                    /\ (Returned.unread_only => ~i.is_read)}
ReturnedItems == {Returned.items[k] : k \in 1..Len(Returned.items)}
\* The items come larger timestamp first, each once, all of them matching,
\* and no matching item left out is more recent than one returned.
MostRecentFirst ==
    /\ \A j, k \in 1..Len(Returned.items) :
          j < k => /\ Returned.items[j].timestamp >= Returned.items[k].timestamp
                   /\ Returned.items[j] # Returned.items[k]
    /\ ReturnedItems \subseteq Matching
    /\ \A i \in Matching \ ReturnedItems, r \in ReturnedItems : r.timestamp >= i.timestamp

C31_GetItemsMostRecentForCount ==
    (IsSome(out) /\ RequestedLimit >= 0)
    => /\ MostRecentFirst
       /\ Len(Returned.items) <= RequestedLimit
       /\ Len(Returned.items) = RequestedLimit \/ ReturnedItems = Matching

\* The step is a poll of t failing after its read phase: the plugin file or
\* the subprocess cannot be had, the subprocess exits non-zero, its output is
\* not a valid payload, or the persist phase ends without success.
FailsAfterReadPhase(t) ==
    \/ pc[t] = "path" /\ pc'[t] \notin {"path", "exec"}
    \/ pc[t] = "exec" /\ pc'[t] # "exec" /\ Unwrap(poll[t].output).status # 0
    \/ pc[t] = "parse" /\ pc'[t] # "parse" /\ ~ValidPayload(Unwrap(poll[t].raw))
    \/ pc[t] = "p3_persist" /\ pc'[t] # "p3_persist"
          /\ ~(pc'[t] = "ret" /\ Unwrap(poll'[t].ret).ok)
\* The plugin's row is the one the heartbeat fetched, and the due check finds
\* it due at the fetch's tick and at every later one.
StaysDue(plugin_id) ==
    LET row == ConfigRow(plugin_config', plugin_id) IN
    row = hb.configs[hb.idx]
    => \A tick \in hb.now..MaxTime :
          DueByClaim(tick, row) /\ DueOutcomes(tick, row) = {"due"}

\* C32: a poll of the heartbeat that fails after its read phase returns the
\* error to the heartbeat loop and leaves the plugin's row (last_poll_at,
\* last_error, error_count) as it was, so that the due check finds the plugin
\* due again at every later tick.
C32_FailedPollStaysDue ==
    [][ FailsAfterReadPhase("sched")
        => /\ pc'["sched"] = "ret"
           /\ ~Unwrap(poll'["sched"].ret).ok
           /\ plugin_config' = plugin_config
           /\ StaysDue(poll["sched"].plugin_id) ]_vars

\* The same for polls whose failure is not an invalid payload that is longer
\* than 200 bytes with byte 200 inside a character.
C32_FailedPollStaysDueUnlessPanic ==
    [][ (FailsAfterReadPhase("sched") /\ pc'["sched"] # "panicked")
        => /\ pc'["sched"] = "ret"
           /\ ~Unwrap(poll'["sched"].ret).ok
           /\ plugin_config' = plugin_config
           /\ StaysDue(poll["sched"].plugin_id) ]_vars

\* C33: a successful persist phase whose result holds a candidate for a pair
\* that has dismissed notifications and no active one inserts a new active
\* notification for the pair, with the poll's time, and shows a native alert
\* for it when the result holds the item, the urgency is critical, high or
\* medium and neither quiet hours nor focus mode are set.
C33_DismissedPairRaisedAgain ==
    [][ \A t \in Tasks :
          (pc[t] = "p3_persist" /\ pc'[t] = "ret" /\ Unwrap(poll'[t].ret).ok)
          => \A k \in 1..Len(CandidatesOf(t)) :
                LET pn == CandidatesOf(t)[k]
                    before == PairRows(notifications, pn.item_id, pn.reason)
                IN (before # {} /\ \A n \in before : n.is_dismissed)
                   => /\ before \subseteq notifications'
                      /\ \E n \in notifications' \ notifications :
                            /\ n.item_id = pn.item_id /\ n.reason = pn.reason
                            /\ ~n.is_dismissed /\ n.created_at = poll[t].now
                      /\ ( /\ \E j \in 1..Len(Unwrap(poll[t].result).items) :
                                 Unwrap(poll[t].result).items[j].id = pn.item_id
                           /\ pn.urgency \in AlertUrgencies
                           /\ app_settings = NoSettings )
                         => alerts' # <<>> ]_vars

\* The notification for (a, assigned) of time 0 was dismissed; the poll at
\* time 1 brought the candidate again, inserted a second notification and
\* showed its alert.
C33_Witness ==
    /\ pc["sched"] = "ret" /\ Unwrap(poll["sched"].ret).ok
    /\ \E n \in notifications :
          /\ n.item_id = "a" /\ n.reason = "assigned" /\ n.is_dismissed /\ n.created_at = 0
    /\ \E n \in notifications :
          /\ n.item_id = "a" /\ n.reason = "assigned" /\ ~n.is_dismissed /\ n.created_at = 1
    /\ Len(alerts) = 1

\* The ids of the items of the result the task t is persisting.
ResultItemIds(t) ==
    {Unwrap(poll[t].result).items[j].id : j \in 1..Len(Unwrap(poll[t].result).items)}

\* C34: a persist phase shows no more native alerts than it inserted
\* notifications whose item_id is the id of an item of the same result; a
\* candidate whose item is not in the result and whose pair is not active is
\* inserted when the persist phase ends without a store error, and a result
\* none of whose candidates has its item in it raises no alert at all.
C34_AlertOnlyForResultItems ==
    [][ \A t \in Tasks :
          (pc[t] = "p3_persist" /\ pc'[t] = "ret")
          => LET added == notifications' \ notifications IN
             /\ Len(alerts') <= Cardinality({n \in added : n.item_id \in ResultItemIds(t)})
             /\ \A k \in 1..Len(CandidatesOf(t)) :
                   LET pn == CandidatesOf(t)[k] IN
                   ( /\ pn.item_id \notin ResultItemIds(t)
                     /\ ~\E n \in PairRows(notifications, pn.item_id, pn.reason) : ~n.is_dismissed
                     /\ Unwrap(poll'[t].ret).ok )
                   => \E n \in added : /\ n.item_id = pn.item_id /\ n.reason = pn.reason
                                         /\ n.urgency = pn.urgency /\ ~n.is_dismissed ]_vars

\* Item a is stored; a later poll returned no items and a critical candidate
\* for a: the notification was inserted and no alert shown.
C34_Witness ==
    /\ pc["sched"] = "ret" /\ Unwrap(poll["sched"].ret).ok
    /\ \E i \in items : i.id = "a" /\ i.updated_at = 0
    /\ \E n \in notifications :
          /\ n.item_id = "a" /\ n.urgency = "critical" /\ ~n.is_dismissed /\ n.created_at = 1
    /\ alerts = <<>>

\* C35: whatever the quiet hours, the focus settings and the local time, a
\* persist phase that ends in success has inserted every candidate whose pair
\* was not active as an active notification with the poll's time.
C35_PolicyGatesOnlyAlert ==
    [][ (pc["sched"] = "p3_persist" /\ pc'["sched"] = "ret"
         /\ Unwrap(poll'["sched"].ret).ok)
        => \A k \in 1..Len(CandidatesOf("sched")) :
              LET pn == CandidatesOf("sched")[k] IN
              (~\E n \in PairRows(notifications, pn.item_id, pn.reason) : ~n.is_dismissed)
              => \E n \in notifications' \ notifications :
                    /\ n.item_id = pn.item_id /\ n.reason = pn.reason
                    /\ n.urgency = pn.urgency /\ ~n.is_dismissed
                    /\ n.created_at = poll["sched"].now ]_vars

\* At 10:00 with quiet hours 09:00-17:00 and focus mode on with threshold
\* critical, a high candidate was inserted as an active notification and no
\* alert was shown.
C35_Witness ==
    /\ pc["sched"] = "ret" /\ Unwrap(poll["sched"].ret).ok
    /\ app_settings["quiet_hours_start"] = Some(TimeText(<<9, 0>>))
    /\ app_settings["quiet_hours_end"] = Some(TimeText(<<17, 0>>))
    /\ app_settings["focus_mode_enabled"] = Some("1")
    /\ app_settings["focus_mode_threshold"] = Some("critical")
    /\ local_time = <<10, 0>>
    /\ ~should_send_notification(app_settings, local_time, "high")
    /\ \E n \in notifications : n.urgency = "high" /\ ~n.is_dismissed
    /\ alerts = <<>>

\* C36: whatever the subprocess printed, the parse step of a poll ends with
\* the parsed result or with a parse error returned to the caller; the task
\* does not panic in it.
C36_ParseNeverPanics ==
    [][ \A t \in Tasks :
          (pc[t] = "parse" /\ pc'[t] # "parse")
          => \/ pc'[t] = "p3_lock" /\ IsSome(poll'[t].result)
             \/ /\ pc'[t] = "ret"
                /\ ~Unwrap(poll'[t].ret).ok
                /\ Unwrap(poll'[t].ret).kind = "ParseError" ]_vars

\* C37: no step makes a dismissed notification active again or removes it;
\* dismiss_notification takes exactly the notification of its id out of the
\* active listing, dismiss_all_notifications leaves the active listing empty,
\* and inserting a notification under a stored id changes nothing.
C37_DismissedStaysDismissed ==
    /\ [][ /\ \A n \in notifications :
                 n.is_dismissed => \E m \in notifications' : m.id = n.id /\ m.is_dismissed
           /\ \A m \in notifications' :
                 ~m.is_dismissed
                 => \A n \in notifications : n.id = m.id => ~n.is_dismissed
           /\ (req = "dismiss_notification" /\ req' = "none")
              => \E id \in 1..MaxNotifs :
                    get_active_notifications(notifications')
                      = {n \in get_active_notifications(notifications) : n.id # id}
           /\ (req = "dismiss_all_notifications" /\ req' = "none")
              => get_active_notifications(notifications') = {} ]_vars
    /\ [](\A n \in notifications :
            insert_notification(notifications, items,
                                [n EXCEPT !.is_dismissed = FALSE]).rows = notifications)

\* The notification of time 0 for (a, assigned) is dismissed and stays so
\* while the poll at time 1 has inserted a new one for the pair.
C37_Witness ==
    /\ pc["sched"] = "ret" /\ Unwrap(poll["sched"].ret).ok
    /\ \E n, m \in notifications :
          /\ n.id # m.id
          /\ n.item_id = "a" /\ n.reason = "assigned" /\ n.is_dismissed /\ n.created_at = 0
          /\ m.item_id = "a" /\ m.reason = "assigned" /\ ~m.is_dismissed /\ m.created_at = 1
    /\ get_active_notifications(notifications) # notifications

====
